---------------------------- MODULE Spec2Model ----------------------------
(***************************************************************************)
(* The diary store of daily-mcp (src/daily_mcp/tools/diary.py): one        *)
(* markdown file per calendar day, rewritten whole on every append and     *)
(* re-parsed on every load and search.                                     *)
(*                                                                         *)
(* Text is a sequence of one-character strings, so that the formatting of  *)
(* a day file and the regular expressions that parse it back are both      *)
(* computed character by character, as the code computes them.             *)
(***************************************************************************)
EXTENDS Integers, Sequences, FiniteSets, TLC

(***************************************************************************)
(* Characters                                                              *)
(***************************************************************************)
LowerLetters == <<"a", "b", "c", "d", "e", "f", "g", "h", "i", "j", "k", "l", "m",
                  "n", "o", "p", "q", "r", "s", "t", "u", "v", "w", "x", "y", "z">>

UpperLetters == <<"A", "B", "C", "D", "E", "F", "G", "H", "I", "J", "K", "L", "M",
                  "N", "O", "P", "Q", "R", "S", "T", "U", "V", "W", "X", "Y", "Z">>

DigitChars == <<"0", "1", "2", "3", "4", "5", "6", "7", "8", "9">>

Range(f) == {f[i] : i \in DOMAIN f}

\* The code point of a character: what Python compares when it sorts strings.
CodePoint ==
    [c \in Range(LowerLetters) |-> 96 + (CHOOSE i \in 1..26 : LowerLetters[i] = c)]
    @@ [c \in Range(UpperLetters) |-> 64 + (CHOOSE i \in 1..26 : UpperLetters[i] = c)]
    @@ [c \in Range(DigitChars) |-> 47 + (CHOOSE i \in 1..10 : DigitChars[i] = c)]
    @@ ("\n" :> 10) @@ (" " :> 32) @@ ("#" :> 35) @@ ("," :> 44) @@ ("-" :> 45)
    @@ ("." :> 46) @@ (":" :> 58) @@ ("[" :> 91) @@ ("]" :> 93) @@ ("_" :> 95)

\* \s of the regular expressions, and the characters str.strip() removes.
Spaces == {" ", "\n"}
IsSpace(c) == c \in Spaces

\* \d
DigitSet == Range(DigitChars)
IsDigit(c) == c \in DigitSet

\* One character of the class [\w\u4e00-\u9fff-] that tag names are made of.
TagChars == Range(LowerLetters) \cup Range(UpperLetters) \cup Range(DigitChars) \cup {"_", "-"}
IsTagChar(c) == c \in TagChars

DigitValue == [c \in DigitSet |-> CHOOSE n \in 0..9 : DigitChars[n + 1] = c]
DigitVal(c) == DigitValue[c]

\* str.lower() of one character
LowerOf == [c \in Range(UpperLetters) |-> LowerLetters[CHOOSE i \in 1..26 : UpperLetters[i] = c]]
LowerChar(c) == IF c \in DOMAIN LowerOf THEN LowerOf[c] ELSE c

(***************************************************************************)
(* Strings                                                                 *)
(***************************************************************************)
\* str.lower()
Lower(s) == [i \in 1..Len(s) |-> LowerChar(s[i])]

\* s[from:to], both 1-based and inclusive; empty when from > to
Slice(s, from, to) == SubSeq(s, from, to)

\* whether p[k..] occurs in s at index i
RECURSIVE MatchesFrom(_, _, _, _)
MatchesFrom(s, p, i, k) ==
    k > Len(p) \/ (s[i] = p[k] /\ MatchesFrom(s, p, i + 1, k + 1))

\* whether p occurs in s at index i
OccursAt(s, p, i) == i >= 1 /\ i + Len(p) - 1 <= Len(s) /\ MatchesFrom(s, p, i, 1)

\* str.startswith
StartsWith(s, p) == OccursAt(s, p, 1)

\* str.find from index `from`: the first index where p occurs, 0 when there is none
RECURSIVE Find(_, _, _)
Find(s, p, from) ==
    IF from + Len(p) - 1 > Len(s) THEN 0
    ELSE IF OccursAt(s, p, from) THEN from
    ELSE Find(s, p, from + 1)

\* p in s
Contains(s, p) == p = <<>> \/ Find(s, p, 1) # 0

\* the first index >= i of s that is not whitespace (Len(s) + 1 when none)
RECURSIVE SkipSpace(_, _)
SkipSpace(s, i) == IF i <= Len(s) /\ IsSpace(s[i]) THEN SkipSpace(s, i + 1) ELSE i

\* the last index <= i of s that is not whitespace (0 when none)
RECURSIVE SkipSpaceBack(_, _)
SkipSpaceBack(s, i) == IF i >= 1 /\ IsSpace(s[i]) THEN SkipSpaceBack(s, i - 1) ELSE i

\* str.strip()
Strip(s) == Slice(s, SkipSpace(s, 1), SkipSpaceBack(s, Len(s)))

\* sep.join(parts)
RECURSIVE Join(_, _)
Join(parts, sep) ==
    IF parts = <<>> THEN <<>>
    ELSE IF Len(parts) = 1 THEN parts[1]
    ELSE parts[1] \o sep \o Join(Tail(parts), sep)

\* the first index >= i of s that is not a tag character (Len(s) + 1 when none)
RECURSIVE SkipTagChars(_, _)
SkipTagChars(s, i) == IF i <= Len(s) /\ IsTagChar(s[i]) THEN SkipTagChars(s, i + 1) ELSE i

\* Python's order on strings, lexicographic by code point: a[i..] < b[i..]
RECURSIVE LessFrom(_, _, _)
LessFrom(a, b, i) ==
    IF i > Len(b) THEN FALSE
    ELSE IF i > Len(a) THEN TRUE
    ELSE IF a[i] = b[i] THEN LessFrom(a, b, i + 1)
    ELSE CodePoint[a[i]] < CodePoint[b[i]]

StrLess(a, b) == LessFrom(a, b, 1)

\* sorted(S) for a set of strings
RECURSIVE Sorted(_)
Sorted(S) ==
    IF S = {} THEN <<>>
    ELSE LET least == CHOOSE x \in S : \A y \in S \ {x} : StrLess(x, y)
         IN  <<least>> \o Sorted(S \ {least})

(***************************************************************************)
(* Dates and times.  A datetime object is a record of numbers; a datetime  *)
(* string is text, written by strftime and read back by strptime.          *)
(***************************************************************************)
\* a non-negative number in exactly `width` decimal digits (%Y, %m, %d, %H, %M, %S)
RECURSIVE Digits(_, _)
Digits(n, width) ==
    IF width = 0 THEN <<>> ELSE Digits(n \div 10, width - 1) \o <<DigitChars[(n % 10) + 1]>>

\* the number written by a string of digits
RECURSIVE Number(_)
Number(s) == IF s = <<>> THEN 0 ELSE 10 * Number(SubSeq(s, 1, Len(s) - 1)) + DigitVal(s[Len(s)])

AllDigits(s) == \A i \in 1..Len(s) : IsDigit(s[i])

IsLeap(y) == (y % 4 = 0 /\ y % 100 # 0) \/ y % 400 = 0

DaysInMonth(y, m) ==
    IF m = 2 THEN (IF IsLeap(y) THEN 29 ELSE 28)
    ELSE IF m \in {4, 6, 9, 11} THEN 30 ELSE 31

\* datetime.strftime("%Y-%m-%d")
StrfDate(dt) == Digits(dt.year, 4) \o <<"-">> \o Digits(dt.month, 2) \o <<"-">> \o Digits(dt.day, 2)

\* datetime.strftime("%H:%M"): the seconds are dropped
StrfHourMinute(dt) == Digits(dt.hour, 2) \o <<":">> \o Digits(dt.minute, 2)

\* datetime.strftime("%Y-%m-%d %H:%M:%S")
StrfDateTime(dt) ==
    StrfDate(dt) \o <<" ">> \o StrfHourMinute(dt) \o <<":">> \o Digits(dt.second, 2)

\* what a failed strptime stands for (ValueError)
ValueError == [ok |-> FALSE, year |-> 0, month |-> 0, day |-> 0, hour |-> 0, minute |-> 0, second |-> 0]

DateTime(y, mo, d, h, mi, s) ==
    [ok |-> TRUE, year |-> y, month |-> mo, day |-> d, hour |-> h, minute |-> mi, second |-> s]

\* datetime.strptime(s, "%Y-%m-%d"), for zero-padded fields
StrptimeDate(s) ==
    IF /\ Len(s) = 10
       /\ s[5] = "-" /\ s[8] = "-"
       /\ AllDigits(SubSeq(s, 1, 4)) /\ AllDigits(SubSeq(s, 6, 7)) /\ AllDigits(SubSeq(s, 9, 10))
    THEN LET y == Number(SubSeq(s, 1, 4))
             m == Number(SubSeq(s, 6, 7))
             d == Number(SubSeq(s, 9, 10))
         IN  IF y >= 1 /\ m \in 1..12 /\ d >= 1 /\ d <= DaysInMonth(y, m)
             THEN DateTime(y, m, d, 0, 0, 0)
             ELSE ValueError
    ELSE ValueError

\* datetime.strptime(s, "%Y-%m-%d %H:%M:%S"), for zero-padded fields
StrptimeDateTime(s) ==
    IF /\ Len(s) = 19
       /\ s[11] = " " /\ s[14] = ":" /\ s[17] = ":"
       /\ AllDigits(SubSeq(s, 12, 13)) /\ AllDigits(SubSeq(s, 15, 16)) /\ AllDigits(SubSeq(s, 18, 19))
    THEN LET date == StrptimeDate(SubSeq(s, 1, 10))
             h == Number(SubSeq(s, 12, 13))
             mi == Number(SubSeq(s, 15, 16))
             sec == Number(SubSeq(s, 18, 19))
         IN  IF date.ok /\ h <= 23 /\ mi <= 59 /\ sec <= 59
             THEN DateTime(date.year, date.month, date.day, h, mi, sec)
             ELSE ValueError
    ELSE ValueError

\* a <= b on datetime objects
DtLeq(a, b) ==
    LET ka == <<a.year, a.month, a.day, a.hour, a.minute, a.second>>
        kb == <<b.year, b.month, b.day, b.hour, b.minute, b.second>>
    IN  \/ ka = kb
        \/ \E i \in 1..6 : ka[i] < kb[i] /\ \A j \in 1..(i - 1) : ka[j] = kb[j]

\* a <= b on strings
StrLeq(a, b) == a = b \/ StrLess(a, b)

(***************************************************************************)
(* The frontmatter codec                                                   *)
(***************************************************************************)
Fence == <<"-", "-", "-">>

\* str.split("\n")
RECURSIVE SplitLines(_)
SplitLines(s) ==
    LET nl == Find(s, <<"\n">>, 1)
    IN  IF nl = 0 THEN <<s>>
        ELSE <<Slice(s, 1, nl - 1)>> \o SplitLines(Slice(s, nl + 1, Len(s)))

\* re.findall(r"[\w\u4e00-\u9fff-]+", s) from index i: the maximal runs of tag characters
RECURSIVE TagRuns(_, _)
TagRuns(s, i) ==
    IF i > Len(s) THEN <<>>
    ELSE IF IsTagChar(s[i])
         THEN LET j == SkipTagChars(s, i) IN <<Slice(s, i, j - 1)>> \o TagRuns(s, j)
         ELSE TagRuns(s, i + 1)

\* A value of the frontmatter dict: a string, or (for a bracketed tags line) a list.
StrValue(s) == [list |-> FALSE, str |-> s, items |-> <<>>]
ListValue(l) == [list |-> TRUE, str |-> <<>>, items |-> l]
KeyTags == <<"t", "a", "g", "s">>

\* the loop of _parse_frontmatter over the lines of the metadata block: a later line
\* with the same key replaces the earlier one
RECURSIVE FrontmatterLines(_, _)
FrontmatterLines(lines, dict) ==
    IF lines = <<>> THEN dict
    ELSE LET line == Head(lines)
             colon == Find(line, <<":">>, 1)
             key == Strip(Slice(line, 1, colon - 1))
             value == Strip(Slice(line, colon + 1, Len(line)))
             parsed == IF key = KeyTags /\ StartsWith(value, <<"[">>)
                       THEN ListValue(TagRuns(value, 1))
                       ELSE StrValue(value)
         IN  IF colon = 0 THEN FrontmatterLines(Tail(lines), dict)
             ELSE FrontmatterLines(Tail(lines),
                                   [k \in DOMAIN dict \cup {key} |->
                                       IF k = key THEN parsed ELSE dict[k]])

EmptyDict == [k \in {} |-> StrValue(<<>>)]

\* the index of the fence that closes the metadata block, 0 when the text does not
\* start with a fence or has no second one: content.split("---", 2) has 3 parts
ClosingFence(content) ==
    IF StartsWith(content, Fence) THEN Find(content, Fence, 1 + Len(Fence)) ELSE 0

\* the body _parse_frontmatter returns
Body(content) ==
    LET second == ClosingFence(content)
    IN  IF second = 0 THEN content
        ELSE Strip(Slice(content, second + Len(Fence), Len(content)))

\* the frontmatter dict _parse_frontmatter returns
Frontmatter(content) ==
    LET second == ClosingFence(content)
    IN  IF second = 0 THEN EmptyDict
        ELSE FrontmatterLines(SplitLines(Strip(Slice(content, 1 + Len(Fence), second - 1))),
                              EmptyDict)

\* _parse_frontmatter: (frontmatter dict, body)
_parse_frontmatter(content) == [frontmatter |-> Frontmatter(content), body |-> Body(content)]

Text_date == <<"d", "a", "t", "e", ":", " ">>
Text_modification_date ==
    <<"m", "o", "d", "i", "f", "i", "c", "a", "t", "i", "o", "n", "_", "d", "a", "t", "e", ":", " ">>
Text_tags == <<"t", "a", "g", "s", ":", " ", "[">>

\* _build_frontmatter, with the datetime.now() it reads as the parameter `clock`
_build_frontmatter(date, tags, clock) ==
    Fence \o <<"\n">>
    \o Text_date \o date \o <<"\n">>
    \o Text_modification_date \o StrfDateTime(clock) \o <<"\n">>
    \o Text_tags \o Join(tags, <<",", " ">>) \o <<"]", "\n">>
    \o Fence

(***************************************************************************)
(* The entry parser                                                        *)
(***************************************************************************)
NoMatch == [ok |-> FALSE, at |-> 0, hm |-> <<>>, ss |-> <<>>, end |-> 0]

\* \s*$ from index p under re.MULTILINE: the greedy run of whitespace, given back
\* until the position is the end of a line.  The index after the match, 0 when the
\* rest of the line is not blank.
BlankToEndOfLine(s, p) ==
    LET q == SkipSpace(s, p)
        ends == {r \in p..q : r = Len(s) + 1 \/ s[r] = "\n"}
    IN  IF ends = {} THEN 0 ELSE CHOOSE r \in ends : \A x \in ends : r >= x

\* \d{2}:\d{2} at index i
HourMinuteAt(s, i) ==
    /\ i + 4 <= Len(s)
    /\ IsDigit(s[i]) /\ IsDigit(s[i + 1]) /\ s[i + 2] = ":" /\ IsDigit(s[i + 3]) /\ IsDigit(s[i + 4])

\* :(\d{2}) at index i
SecondsAt(s, i) == i + 2 <= Len(s) /\ s[i] = ":" /\ IsDigit(s[i + 1]) /\ IsDigit(s[i + 2])

\* the pattern ^## (\d{2}:\d{2})(?::(\d{2}))?\s*$ tried at index i
HeaderAt(s, i) ==
    IF /\ (i = 1 \/ s[i - 1] = "\n")
       /\ OccursAt(s, <<"#", "#", " ">>, i)
       /\ HourMinuteAt(s, i + 3)
    THEN LET hm == Slice(s, i + 3, i + 7)
             long == IF SecondsAt(s, i + 8) THEN BlankToEndOfLine(s, i + 11) ELSE 0
             short == BlankToEndOfLine(s, i + 8)
         IN  IF long # 0
             THEN [ok |-> TRUE, at |-> i, hm |-> hm, ss |-> Slice(s, i + 9, i + 10), end |-> long]
             ELSE IF short # 0
             THEN [ok |-> TRUE, at |-> i, hm |-> hm, ss |-> <<>>, end |-> short]
             ELSE NoMatch
    ELSE NoMatch

\* the successive matches of the header pattern in s from index i, as re.split finds them
RECURSIVE HeaderMatches(_, _)
HeaderMatches(s, i) ==
    IF i > Len(s) THEN <<>>
    ELSE LET m == HeaderAt(s, i)
         IN  IF m.ok THEN <<m>> \o HeaderMatches(s, m.end) ELSE HeaderMatches(s, i + 1)

\* re.split(pattern, body): the groups of each match with the text that follows it
\* (the text before the first match, sections[0], is dropped by the caller)
Sections(body) ==
    LET ms == HeaderMatches(body, 1)
    IN  [k \in 1..Len(ms) |->
            [time_hm |-> ms[k].hm,
             time_ss |-> ms[k].ss,
             content_block |-> Slice(body, ms[k].end,
                                     IF k < Len(ms) THEN ms[k + 1].at - 1 ELSE Len(body))]]

\* re.findall(r"#([\w\u4e00-\u9fff-]+)", s) from index i
RECURSIVE InlineTags(_, _)
InlineTags(s, i) ==
    IF i > Len(s) THEN <<>>
    ELSE IF s[i] = "#" /\ i + 1 <= Len(s) /\ IsTagChar(s[i + 1])
         THEN LET j == SkipTagChars(s, i + 1) IN <<Slice(s, i + 1, j - 1)>> \o InlineTags(s, j)
         ELSE InlineTags(s, i + 1)

\* re.sub(r"\s*#[\w\u4e00-\u9fff-]+", "", s) from index i
RECURSIVE RemoveInlineTags(_, _)
RemoveInlineTags(s, i) ==
    IF i > Len(s) THEN <<>>
    ELSE LET j == SkipSpace(s, i)
         IN  IF j + 1 <= Len(s) /\ s[j] = "#" /\ IsTagChar(s[j + 1])
             THEN RemoveInlineTags(s, SkipTagChars(s, j + 1))
             ELSE <<s[i]>> \o RemoveInlineTags(s, i + 1)

\* the loop body of _parse_entries, had it left the '#tag' markers in the content
Entry_KeepsMarkers(section, file_date) ==
    LET time_str == IF section.time_ss # <<>>
                    THEN section.time_hm \o <<":">> \o section.time_ss
                    ELSE section.time_hm \o <<":", "0", "0">>
        content_block == Strip(section.content_block)
    IN  [datetime |-> file_date \o <<" ">> \o time_str,
         content |-> content_block,
         tags |-> InlineTags(content_block, 1)]

\* the loop body of _parse_entries for one section
Entry(section, file_date) ==
    LET time_str == IF section.time_ss # <<>>
                    THEN section.time_hm \o <<":">> \o section.time_ss
                    ELSE section.time_hm \o <<":", "0", "0">>
        content_block == Strip(section.content_block)
    IN  [datetime |-> file_date \o <<" ">> \o time_str,
         content |-> Strip(RemoveInlineTags(content_block, 1)),
         tags |-> InlineTags(content_block, 1)]

\* the sections whose stripped content is not empty
RECURSIVE KeptEntries(_, _)
KeptEntries(sections, file_date) ==
    IF sections = <<>> THEN <<>>
    ELSE IF Strip(Head(sections).content_block) = <<>>
         THEN KeptEntries(Tail(sections), file_date)
         ELSE <<Entry(Head(sections), file_date)>> \o KeptEntries(Tail(sections), file_date)

\* _parse_entries
_parse_entries(body, file_date) == KeptEntries(Sections(body), file_date)

(***************************************************************************)
(* The store: the day files under diary_dir, and its directories           *)
(***************************************************************************)
\* An optional argument: None, or a value.
None == [some |-> FALSE, val |-> <<>>]
Some(v) == [some |-> TRUE, val |-> v]

\* Python's truth of an optional string or list: neither None nor empty
Truthy(x) == x.some /\ x.val # <<>>

Suffix_md == <<".", "m", "d">>

\* str.split("-")
RECURSIVE SplitDash(_)
SplitDash(s) ==
    LET dash == Find(s, <<"-">>, 1)
    IN  IF dash = 0 THEN <<s>>
        ELSE <<Slice(s, 1, dash - 1)>> \o SplitDash(Slice(s, dash + 1, Len(s)))

\* _get_diary_file: diary_dir / year / month / "<date>.md"
_get_diary_file(date) ==
    LET parts == SplitDash(date) IN <<parts[1], parts[2], date \o Suffix_md>>

\* Path.parent.mkdir(parents=True, exist_ok=True)
Mkdir(dirs, path) == dirs \cup {<<path[1]>>, <<path[1], path[2]>>}

\* Path.stem of a day file
Stem(path) == Slice(path[3], 1, Len(path[3]) - Len(Suffix_md))

\* _load_diary, had it added the tags of the file's frontmatter to every entry's own
_load_diary_merged(fs, date) ==
    LET diary_file == _get_diary_file(date)
        entries == _parse_entries(Body(fs[diary_file]), date)
        file_tags == Frontmatter(fs[diary_file])[KeyTags].items
    IN  IF diary_file \notin DOMAIN fs THEN <<>>
        ELSE [i \in DOMAIN entries |->
                 [entries[i] EXCEPT !.tags =
                     @ \o SelectSeq(file_tags, LAMBDA t : t \notin Range(entries[i].tags))]]

\* _load_diary
_load_diary(fs, date) ==
    LET diary_file == _get_diary_file(date)
    IN  IF diary_file \notin DOMAIN fs THEN <<>>
        ELSE _parse_entries(Body(fs[diary_file]), date)

\* _collect_all_tags
_collect_all_tags(fs, date, new_tags) ==
    LET existing_entries == _load_diary(fs, date)
    IN  Sorted(Range(IF Truthy(new_tags) THEN new_tags.val ELSE <<>>)
               \cup UNION {Range(existing_entries[i].tags) : i \in DOMAIN existing_entries})

\* " ".join(f"#{tag}" for tag in tags)
HashTags(tags) == Join([i \in DOMAIN tags |-> <<"#">> \o tags[i]], <<" ">>)

\* the entry_block, had its header carried a seconds field after HH:MM
EntryBlock_WithSeconds(time_str, content, tags) ==
    <<"\n", "\n", "#", "#", " ">> \o time_str \o <<":", "3", "0", "\n", "\n">> \o content
    \o (IF Truthy(tags) THEN <<"\n", "\n">> \o HashTags(tags.val) ELSE <<>>)

\* the entry_block of _append_entry_to_markdown
EntryBlock(time_str, content, tags) ==
    <<"\n", "\n", "#", "#", " ">> \o time_str \o <<"\n", "\n">> \o content
    \o (IF Truthy(tags) THEN <<"\n", "\n">> \o HashTags(tags.val) ELSE <<>>)

\* the text written, had _append_entry_to_markdown put the new section first
NewContent_Prepends(fs, date, time_str, content, tags, clock) ==
    LET diary_file == _get_diary_file(date)
        entry_block == EntryBlock(time_str, content, tags)
    IN  IF diary_file \in DOMAIN fs
        THEN _build_frontmatter(date, _collect_all_tags(fs, date, tags), clock)
             \o <<"\n">> \o entry_block \o Body(fs[diary_file])
        ELSE _build_frontmatter(date, IF Truthy(tags) THEN tags.val ELSE <<>>, clock)
             \o entry_block

\* the text _append_entry_to_markdown writes to the day file
NewContent(fs, date, time_str, content, tags, clock) ==
    LET diary_file == _get_diary_file(date)
        entry_block == EntryBlock(time_str, content, tags)
    IN  IF diary_file \in DOMAIN fs
        THEN _build_frontmatter(date, _collect_all_tags(fs, date, tags), clock)
             \o <<"\n">> \o Body(fs[diary_file]) \o entry_block
        ELSE _build_frontmatter(date, IF Truthy(tags) THEN tags.val ELSE <<>>, clock)
             \o entry_block

\* the files after the write, had the new section gone to every day file there is
_append_entry_to_markdown_everywhere(fs, date, time_str, content, tags, clock) ==
    LET diary_file == _get_diary_file(date)
        new_content == NewContent(fs, date, time_str, content, tags, clock)
    IN  [p \in DOMAIN fs \cup {diary_file} |->
            IF p = diary_file THEN new_content
            ELSE fs[p] \o EntryBlock(time_str, content, tags)]

\* _append_entry_to_markdown: the files after the write
_append_entry_to_markdown(fs, date, time_str, content, tags, clock) ==
    LET diary_file == _get_diary_file(date)
        new_content == NewContent(fs, date, time_str, content, tags, clock)
    IN  [p \in DOMAIN fs \cup {diary_file} |-> IF p = diary_file THEN new_content ELSE fs[p]]

(***************************************************************************)
(* Search                                                                  *)
(***************************************************************************)
\* the day before the day of dt, at the same time of day
PrevDay(dt) ==
    IF dt.day > 1 THEN [dt EXCEPT !.day = dt.day - 1]
    ELSE IF dt.month > 1
         THEN [dt EXCEPT !.month = dt.month - 1, !.day = DaysInMonth(dt.year, dt.month - 1)]
         ELSE [dt EXCEPT !.year = dt.year - 1, !.month = 12, !.day = 31]

\* dt - timedelta(days=n)
RECURSIVE MinusDays(_, _)
MinusDays(dt, n) == IF n = 0 THEN dt ELSE MinusDays(PrevDay(dt), n - 1)

DefaultWindowDays == 30

\* _parse_datetime_range, had its default window been a week
_parse_datetime_range_week(start_datetime, end_datetime, clock) ==
    LET start_full == StrptimeDateTime(start_datetime.val)
        start_dt == IF ~Truthy(start_datetime) THEN MinusDays(clock, 7)
                    ELSE IF start_full.ok THEN start_full
                    ELSE StrptimeDate(start_datetime.val)
        end_full == StrptimeDateTime(end_datetime.val)
        end_date == StrptimeDate(end_datetime.val)
        end_dt == IF ~Truthy(end_datetime) THEN clock
                  ELSE IF end_full.ok THEN end_full
                  ELSE IF end_date.ok
                       THEN [end_date EXCEPT !.hour = 23, !.minute = 59, !.second = 59]
                       ELSE ValueError
    IN  [ok |-> start_dt.ok /\ end_dt.ok, start_dt |-> start_dt, end_dt |-> end_dt]

\* _parse_datetime_range, had it left a date-only end bound at midnight
_parse_datetime_range_midnight(start_datetime, end_datetime, clock) ==
    LET start_full == StrptimeDateTime(start_datetime.val)
        start_dt == IF ~Truthy(start_datetime) THEN MinusDays(clock, DefaultWindowDays)
                    ELSE IF start_full.ok THEN start_full
                    ELSE StrptimeDate(start_datetime.val)
        end_full == StrptimeDateTime(end_datetime.val)
        end_dt == IF ~Truthy(end_datetime) THEN clock
                  ELSE IF end_full.ok THEN end_full
                  ELSE StrptimeDate(end_datetime.val)
    IN  [ok |-> start_dt.ok /\ end_dt.ok, start_dt |-> start_dt, end_dt |-> end_dt]

\* _parse_datetime_range; ok is FALSE when a strptime raises ValueError out of it
_parse_datetime_range(start_datetime, end_datetime, clock) ==
    LET start_full == StrptimeDateTime(start_datetime.val)
        start_dt == IF ~Truthy(start_datetime) THEN MinusDays(clock, DefaultWindowDays)
                    ELSE IF start_full.ok THEN start_full
                    ELSE StrptimeDate(start_datetime.val)
        end_full == StrptimeDateTime(end_datetime.val)
        end_date == StrptimeDate(end_datetime.val)
        end_dt == IF ~Truthy(end_datetime) THEN clock
                  ELSE IF end_full.ok THEN end_full
                  ELSE IF end_date.ok
                       THEN [end_date EXCEPT !.hour = 23, !.minute = 59, !.second = 59]
                       ELSE ValueError
    IN  [ok |-> start_dt.ok /\ end_dt.ok, start_dt |-> start_dt, end_dt |-> end_dt]

\* _entry_matches_filter, had it compared with < in place of <=
_entry_matches_filter_exclusive(entry, start_dt, end_dt, keyword, tag) ==
    LET entry_dt == StrptimeDateTime(entry.datetime)
    IN  /\ entry.datetime # <<>> =>
              /\ entry_dt.ok
              /\ ~DtLeq(entry_dt, start_dt) /\ ~DtLeq(end_dt, entry_dt)
        /\ Truthy(keyword) => Contains(Lower(entry.content), Lower(keyword.val))
        /\ Truthy(tag) => \E i \in DOMAIN entry.tags : Lower(entry.tags[i]) = Lower(tag.val)

\* _entry_matches_filter, had it let an entry pass on the keyword or the tag alone
_entry_matches_filter_either(entry, start_dt, end_dt, keyword, tag) ==
    LET entry_dt == StrptimeDateTime(entry.datetime)
    IN  /\ entry.datetime # <<>> =>
              /\ entry_dt.ok
              /\ DtLeq(start_dt, entry_dt) /\ DtLeq(entry_dt, end_dt)
        /\ \/ ~Truthy(keyword) /\ ~Truthy(tag)
           \/ Truthy(keyword) /\ Contains(Lower(entry.content), Lower(keyword.val))
           \/ Truthy(tag) /\ \E i \in DOMAIN entry.tags : Lower(entry.tags[i]) = Lower(tag.val)

\* _entry_matches_filter
_entry_matches_filter(entry, start_dt, end_dt, keyword, tag) ==
    LET entry_dt == StrptimeDateTime(entry.datetime)
    IN  /\ entry.datetime # <<>> =>
              /\ entry_dt.ok
              /\ DtLeq(start_dt, entry_dt) /\ DtLeq(entry_dt, end_dt)
        /\ Truthy(keyword) => Contains(Lower(entry.content), Lower(keyword.val))
        /\ Truthy(tag) => \E i \in DOMAIN entry.tags : Lower(entry.tags[i]) = Lower(tag.val)

\* the order of Path objects: part by part, each part as a string
PathLess(p, q) ==
    \E i \in 1..3 : StrLess(p[i], q[i]) /\ \A j \in 1..(i - 1) : p[j] = q[j]

\* sorted(paths): the order without reverse=True
RECURSIVE SortedForward(_)
SortedForward(paths) ==
    IF paths = {} THEN <<>>
    ELSE LET least == CHOOSE p \in paths : \A q \in paths \ {p} : PathLess(p, q)
         IN  <<least>> \o SortedForward(paths \ {least})

\* sorted(paths, reverse=True)
RECURSIVE SortedReverse(_)
SortedReverse(paths) ==
    IF paths = {} THEN <<>>
    ELSE LET greatest == CHOOSE p \in paths : \A q \in paths \ {p} : PathLess(q, p)
         IN  <<greatest>> \o SortedReverse(paths \ {greatest})

\* the files rglob("*.md") finds
RGlob_md(fs) ==
    {p \in DOMAIN fs : Slice(p[3], Len(p[3]) - Len(Suffix_md) + 1, Len(p[3])) = Suffix_md}

RECURSIVE InRange(_, _, _)
InRange(paths, start_date, end_date) ==
    IF paths = <<>> THEN <<>>
    ELSE LET file_date == Stem(Head(paths))
         IN  (IF StrLeq(start_date, file_date) /\ StrLeq(file_date, end_date)
              THEN <<file_date>> ELSE <<>>)
             \o InRange(Tail(paths), start_date, end_date)

\* _iter_diary_files: the file dates it yields, in order
_iter_diary_files(fs, start_date, end_date) ==
    InRange(SortedReverse(RGlob_md(fs)), start_date, end_date)

\* the matching entries of one file, in the file's order
RECURSIVE Matching(_, _, _, _, _, _)
Matching(entries, file_date, start_dt, end_dt, keyword, tag) ==
    IF entries = <<>> THEN <<>>
    ELSE (IF _entry_matches_filter(Head(entries), start_dt, end_dt, keyword, tag)
          THEN <<[file_date |-> file_date, entry |-> Head(entries)]>> ELSE <<>>)
         \o Matching(Tail(entries), file_date, start_dt, end_dt, keyword, tag)

\* the loop of search_diary over the files
RECURSIVE SearchFiles(_, _, _, _, _, _)
SearchFiles(fs, file_dates, start_dt, end_dt, keyword, tag) ==
    IF file_dates = <<>> THEN <<>>
    ELSE Matching(_load_diary(fs, Head(file_dates)), Head(file_dates),
                  start_dt, end_dt, keyword, tag)
         \o SearchFiles(fs, Tail(file_dates), start_dt, end_dt, keyword, tag)

\* the results list of search_diary, for a range that parsed
SearchResults(fs, range, keyword, tag) ==
    SearchFiles(fs, _iter_diary_files(fs, StrfDate(range.start_dt), StrfDate(range.end_dt)),
                range.start_dt, range.end_dt, keyword, tag)

MaxDisplay == 100

Text_NoMatching == <<"N", "o", " ", "m", "a", "t", "c", "h", "i", "n", "g", " ", "d", "i", "a", "r", "y", " ", "e", "n", "t", "r", "i", "e", "s", " ", "f", "o", "u", "n", "d">>
Text_DiaryEntries == <<"D", "i", "a", "r", "y", " ", "E", "n", "t", "r", "i", "e", "s", ":">>
Text_Date == <<"D", "a", "t", "e", ":", " ">>
Ellipsis == <<".", ".", ".">>

\* dt_str.split(" ")[-1]
AfterLastSpace(s) ==
    LET spaces == {i \in 1..Len(s) : s[i] = " "}
    IN  IF spaces = {} THEN s
        ELSE Slice(s, 1 + (CHOOSE i \in spaces : \A j \in spaces : i >= j), Len(s))

\* the line of one entry in the report
EntryLine(entry) ==
    LET display_content == IF Len(entry.content) <= MaxDisplay THEN entry.content
                           ELSE Slice(entry.content, 1, MaxDisplay) \o Ellipsis
        tag_str == IF entry.tags # <<>>
                   THEN <<" ", "[">> \o Join(entry.tags, <<",", " ">>) \o <<"]">>
                   ELSE <<>>
    IN  IF entry.datetime # <<>>
        THEN <<" ", " ", "[">> \o AfterLastSpace(entry.datetime) \o <<"]">>
             \o tag_str \o <<" ">> \o display_content
        ELSE <<" ", " ", "-">> \o tag_str \o <<" ">> \o display_content

\* the loop of _format_search_results: the output lines of results[i..]
RECURSIVE OutputLines(_, _, _)
OutputLines(results, i, current_date) ==
    IF i > Len(results) THEN <<>>
    ELSE LET file_date == results[i].file_date
         IN  (IF Some(file_date) # current_date
              THEN (IF current_date # None THEN <<<<>>>> ELSE <<>>)
                   \o <<Text_Date \o file_date>>
              ELSE <<>>)
             \o <<EntryLine(results[i].entry)>>
             \o OutputLines(results, i + 1, Some(file_date))

\* _format_search_results, had it no message for an empty result list
_format_search_results_bare(results) ==
    Join(<<Text_DiaryEntries, <<>>>> \o OutputLines(results, 1, None), <<"\n">>)

\* _format_search_results
_format_search_results(results) ==
    IF results = <<>> THEN Text_NoMatching
    ELSE Join(<<Text_DiaryEntries, <<>>>> \o OutputLines(results, 1, None), <<"\n">>)

(***************************************************************************)
(* The inputs the operations are called with                               *)
(***************************************************************************)
\* how many add_diary calls that write are followed
MaxAdds == 2

Content_Run == <<"R", "u", "n">>
Content_jog == <<"j", "o", "g">>
Content_hashtag == <<"a", " ", "#", "x">>
Content_header == <<"b", "\n", "#", "#", " ", "0", "9", ":", "0", "0", "\n", "c">>

Tag_a == <<"a">>
Tag_b == <<"b">>
Tag_W == <<"W">>

\* the instants the clock shows, in order
Clock == <<DateTime(2024, 2, 1, 9, 0, 30), DateTime(2024, 2, 1, 21, 15, 0)>>

Evening == StrfDateTime(DateTime(2024, 1, 31, 20, 0, 0))
Morning == StrfDateTime(DateTime(2024, 1, 31, 8, 0, 30))
YearEnd == StrfDateTime(DateTime(2023, 12, 31, 23, 59, 59))
DateOnly == StrfDate(DateTime(2024, 1, 31, 0, 0, 0))
NoSuchMonth == StrfDateTime(DateTime(2024, 13, 1, 10, 0, 0))

Request(c, t, d) == [content |-> c, tags |-> t, datetime_str |-> d]

\* the (content, tags, datetime) of the add_diary calls
AddRequests ==
    {Request(Content_Run, Some(<<Tag_b, Tag_a>>), Some(Evening)),
     Request(Content_jog, Some(<<Tag_W>>), Some(Morning)),
     Request(Content_jog, None, Some(YearEnd)),
     Request(Content_jog, Some(<<Tag_W>>), None),
     Request(Content_hashtag, None, Some(Evening)),
     Request(Content_header, Some(<<Tag_W>>), Some(Evening)),
     Request(<<>>, Some(<<Tag_b, Tag_a>>), Some(Morning)),
     Request(<<>>, None, Some(Evening)),
     Request(Content_Run, None, Some(<<>>)),
     Request(Content_Run, None, Some(DateOnly)),
     Request(Content_Run, Some(<<Tag_W>>), Some(NoSuchMonth))}

Day_Jan31 == StrfDate(DateTime(2024, 1, 31, 0, 0, 0))
Day_Dec31 == StrfDate(DateTime(2023, 12, 31, 0, 0, 0))
Day_Feb01 == StrfDate(DateTime(2024, 2, 1, 0, 0, 0))

Keyword_run == <<"r", "u", "n">>
Tag_w == <<"w">>
Tag_x == <<"x">>

Query(k, t, s, e) == [keyword |-> k, tag |-> t, start_datetime |-> s, end_datetime |-> e]

\* the (keyword, tag, start, end) of the search_diary calls
SearchRequests ==
    \* full datetime bounds: on the entries' own minutes, and just inside them
    {Query(None, None, Some(StrfDateTime(DateTime(2024, 1, 31, 8, 0, 0))), Some(Evening)),
     Query(None, None, Some(Morning), Some(StrfDateTime(DateTime(2024, 1, 31, 19, 59, 59)))),
     Query(None, None, Some(StrfDateTime(DateTime(2023, 12, 31, 23, 59, 0))),
                       Some(StrfDateTime(DateTime(2024, 2, 1, 9, 0, 0))))}
    \* date-only bounds
    \cup {Query(None, None, Some(Day_Jan31), Some(Day_Jan31)),
          Query(None, None, Some(Day_Dec31), Some(Day_Dec31)),
          Query(None, None, Some(Day_Dec31), Some(Day_Feb01)),
          Query(None, None, Some(Day_Feb01), Some(Day_Dec31))}
    \* default bounds, an empty string for a bound, a bound that does not parse
    \cup {Query(None, None, None, None),
          Query(None, None, Some(<<>>), Some(Day_Jan31)),
          Query(None, None, Some(NoSuchMonth), None),
          Query(None, None, Some(Day_Dec31), Some(NoSuchMonth))}
    \* keyword and tag filters
    \cup {Query(k, t, Some(Day_Dec31), Some(Day_Feb01)) :
             k \in {None, Some(Keyword_run)}, t \in {None, Some(Tag_w), Some(Tag_x)}}
    \cup {Query(Some(<<>>), Some(<<>>), Some(Day_Dec31), Some(Day_Feb01))}

\* the dates _load_diary is called with
LoadDates == {Day_Dec31, Day_Jan31, Day_Feb01}

(***************************************************************************)
(* State                                                                   *)
(***************************************************************************)
VARIABLES
    files,   \* the day files under diary_dir: path -> text
    dirs,    \* the directories under diary_dir
    now,     \* what datetime.now() returns
    calls,   \* the add_diary calls that wrote, in order, each with the clock it saw
    last,    \* the last call: its arguments, what it returned, what it raised
    procs,   \* the operations running in independent processes: where each one is
    db,      \* the rows of the tables of the database
    reply    \* what handlers.call_tool gave back for the last tool call

vars == <<files, dirs, now, calls, last, procs, db, reply>>

\* no operation runs in another process
NoProcs == [p \in {} |-> <<>>]

\* Database.init on a new file: the three tables, without rows
Database_init == [finance |-> <<>>, todo |-> <<>>, health |-> <<>>]

\* no tool call has been answered
NoReply == [some |-> FALSE, name |-> <<>>, text |-> <<>>, escaped |-> FALSE]

NoCall ==
    [op |-> "none", content |-> <<>>, tags |-> None, datetime_str |-> None,
     keyword |-> None, tag |-> None, start_datetime |-> None, end_datetime |-> None,
     date |-> <<>>, results |-> <<>>, ret |-> <<>>, raised |-> FALSE]

Init ==
    /\ files = [p \in {} |-> <<>>]
    /\ dirs = {}
    /\ now = Clock[1]
    /\ calls = <<>>
    /\ last = NoCall
    /\ procs = NoProcs
    /\ db = Database_init
    /\ reply = NoReply

Text_Invalid == <<"I", "n", "v", "a", "l", "i", "d", " ", "d", "a", "t", "e", "t", "i", "m", "e", " ", "f", "o", "r", "m", "a", "t", ":", " ">>
Text_Use == <<".", " ", "U", "s", "e", " ", "Y", "Y", "Y", "Y", "-", "M", "M", "-", "D", "D", " ", "H", "H", ":", "M", "M", ":", "S", "S">>
Text_Added == <<"D", "i", "a", "r", "y", " ", "e", "n", "t", "r", "y", " ", "a", "d", "d", "e", "d", " ", "f", "o", "r", " ">>
Text_tags_open == <<" ", "[", "t", "a", "g", "s", ":", " ">>

\* add_diary
add_diary(content, tags, datetime_str) ==
    LET parsed == StrptimeDateTime(datetime_str.val)
        entry_datetime == IF Truthy(datetime_str) THEN parsed ELSE now
        diary_date == StrfDate(entry_datetime)
        time_str == StrfHourMinute(entry_datetime)
        tag_info == IF Truthy(tags)
                    THEN Text_tags_open \o Join(tags.val, <<",", " ">>) \o <<"]">>
                    ELSE <<>>
        call == [NoCall EXCEPT !.op = "add_diary", !.content = content, !.tags = tags,
                               !.datetime_str = datetime_str]
    IN  IF Truthy(datetime_str) /\ ~parsed.ok
        THEN /\ last' = [call EXCEPT !.ret = Text_Invalid \o datetime_str.val \o Text_Use]
             /\ UNCHANGED <<files, dirs, now, calls>>
        ELSE /\ Len(calls) < MaxAdds
             /\ dirs' = Mkdir(dirs, _get_diary_file(diary_date))
             /\ files' = _append_entry_to_markdown(files, diary_date, time_str, content, tags, now)
             /\ calls' = Append(calls, [date |-> diary_date, time |-> time_str,
                                        content |-> content, tags |-> tags,
                                        datetime_str |-> datetime_str, at |-> now])
             /\ last' = [call EXCEPT !.date = diary_date,
                                     !.ret = Text_Added \o StrfDateTime(entry_datetime) \o tag_info]
             /\ UNCHANGED now

\* The server answers one call at a time: a call starts when none is being answered.
Idle == last = NoCall

AddDiary ==
    /\ Idle
    /\ \E r \in AddRequests : add_diary(r.content, r.tags, r.datetime_str)
    /\ UNCHANGED <<procs, db, reply>>

\* search_diary, had it made the directories of its start day as a write does
search_diary_mkdir(keyword, tag, start_datetime, end_datetime) ==
    LET range == _parse_datetime_range(start_datetime, end_datetime, now)
        results == SearchResults(files, range, keyword, tag)
        call == [NoCall EXCEPT !.op = "search_diary", !.keyword = keyword, !.tag = tag,
                               !.start_datetime = start_datetime,
                               !.end_datetime = end_datetime]
    IN  /\ last' = IF range.ok
                   THEN [call EXCEPT !.results = results, !.ret = _format_search_results(results)]
                   ELSE [call EXCEPT !.raised = TRUE]
        /\ dirs' = IF range.ok THEN Mkdir(dirs, _get_diary_file(StrfDate(range.start_dt)))
                   ELSE dirs
        /\ UNCHANGED <<files, now, calls>>

\* search_diary
search_diary(keyword, tag, start_datetime, end_datetime) ==
    LET range == _parse_datetime_range(start_datetime, end_datetime, now)
        results == SearchResults(files, range, keyword, tag)
        call == [NoCall EXCEPT !.op = "search_diary", !.keyword = keyword, !.tag = tag,
                               !.start_datetime = start_datetime,
                               !.end_datetime = end_datetime]
    IN  /\ last' = IF range.ok
                   THEN [call EXCEPT !.results = results, !.ret = _format_search_results(results)]
                   ELSE [call EXCEPT !.raised = TRUE]
        /\ UNCHANGED <<files, dirs, now, calls>>

SearchDiary ==
    /\ Idle
    /\ \E q \in SearchRequests : search_diary(q.keyword, q.tag, q.start_datetime, q.end_datetime)
    /\ UNCHANGED <<procs, db, reply>>

\* a call of _load_diary from outside the module (the daily summary, the tests)
LoadDiary ==
    /\ Idle
    /\ \E date \in LoadDates :
          LET entries == _load_diary(files, date)
          IN  last' = [NoCall EXCEPT !.op = "_load_diary", !.date = date,
                                     !.results = [i \in DOMAIN entries |->
                                                     [file_date |-> date, entry |-> entries[i]]]]
    /\ UNCHANGED <<files, dirs, now, calls, procs, db, reply>>

\* the call returns to its caller
Return ==
    /\ ~Idle
    /\ last' = NoCall
    /\ reply' = NoReply
    /\ UNCHANGED <<files, dirs, now, calls, procs, db>>

\* the clock moves on between calls
Tick ==
    /\ Idle
    /\ \E i \in 1..(Len(Clock) - 1) : now = Clock[i] /\ now' = Clock[i + 1]
    /\ UNCHANGED <<files, dirs, calls, last, procs, db, reply>>

Next == AddDiary \/ SearchDiary \/ LoadDiary \/ Return \/ Tick

Spec == Init /\ [][Next]_vars

(***************************************************************************)
(* What the properties below speak of                                      *)
(***************************************************************************)
\* the dates of the day files that exist
FileDates == {Stem(p) : p \in DOMAIN files}

\* the entries of a result list that come from the file of date d, in order
EntriesOn(results, d) ==
    LET sel == SelectSeq(results, LAMBDA r : r.file_date = d)
    IN  [i \in DOMAIN sel |-> sel[i].entry]

\* a bound in the full format, a bound in the date-only format, an absent bound
IsFull(b) == b.some /\ StrptimeDateTime(b.val).ok
IsDateOnly(b) == b.some /\ StrptimeDate(b.val).ok
IsAbsent(b) == ~b.some \/ b.val = <<>>

\* the timestamp of a stored entry lies in [lo, hi]
InWindow(entry, lo, hi) ==
    LET t == StrptimeDateTime(entry.datetime)
    IN  t.ok /\ DtLeq(lo, t) /\ DtLeq(t, hi)

\* the last call was a search with these kinds of arguments
Searched == last.op = "search_diary"
Unfiltered == IsAbsent(last.keyword) /\ IsAbsent(last.tag)

\* the last call was an add_diary that wrote the day file
Wrote == last.op = "add_diary" /\ last.date # <<>>

\* the tags line of a day file's frontmatter
FrontmatterTags(content) == Frontmatter(content)[KeyTags].items

\* the tags of the entries of a day file, as a set
BodyTags(date) ==
    LET entries == _load_diary(files, date)
    IN  UNION {Range(entries[i].tags) : i \in DOMAIN entries}

TagSet(tags) == IF tags.some THEN Range(tags.val) ELSE {}

(***************************************************************************)
(* C1  Round trip of one entry                                             *)
(***************************************************************************)
\* the last call read day `date` whole: a load of it, or an unfiltered search whose
\* range covers the day from 00:00:00 to 23:59:59
ReadsWholeDay(date) ==
    \/ last.op = "_load_diary" /\ last.date = date
    \/ /\ Searched /\ ~last.raised /\ Unfiltered
       /\ LET range == _parse_datetime_range(last.start_datetime, last.end_datetime, now)
              day == StrptimeDate(date)
          IN  /\ DtLeq(range.start_dt, day)
              /\ DtLeq([day EXCEPT !.hour = 23, !.minute = 59, !.second = 59], range.end_dt)

RoundTrips(call) ==
    /\ Len(last.results) = 1
    /\ last.results[1].entry.content = call.content
    /\ Range(last.results[1].entry.tags) = TagSet(call.tags)

\* C1 as claimed: from an empty store, one add_diary with any content C and tag list T
\* on day D, then a load of D or a search covering D, gives exactly one entry with
\* content C and tag set T.
C1_RoundTripAnyContent ==
    (Len(calls) = 1 /\ ReadsWholeDay(calls[1].date)) => RoundTrips(calls[1])

\* content the file format carries unchanged, and tags that are tag names
PlainContent(c) ==
    /\ c # <<>> /\ Strip(c) = c /\ Len(c) <= MaxDisplay
    /\ InlineTags(c, 1) = <<>>
    /\ HeaderMatches(c, 1) = <<>>
TagNames(tags) ==
    \A t \in TagSet(tags) : t # <<>> /\ \A i \in 1..Len(t) : IsTagChar(t[i])

\* C1 amended: the round trip holds when C is non-empty, has no leading or trailing
\* whitespace, no '#tag' marker, no '## HH:MM' header line and at most 100 characters, and T
\* holds tag names only; the search report then shows the entry's line in full.
C1_RoundTripPlain ==
    (/\ Len(calls) = 1 /\ ReadsWholeDay(calls[1].date)
     /\ PlainContent(calls[1].content) /\ TagNames(calls[1].tags))
    => /\ RoundTrips(calls[1])
       /\ Searched =>
            last.ret = Join(<<Text_DiaryEntries, <<>>, Text_Date \o calls[1].date,
                              <<" ", " ", "[">> \o calls[1].time \o <<":", "0", "0", "]">>
                              \o (IF TagSet(calls[1].tags) # {}
                                  THEN <<" ", "[">> \o Join(calls[1].tags.val, <<",", " ">>) \o <<"]">>
                                  ELSE <<>>)
                              \o <<" ">> \o calls[1].content>>, <<"\n">>)

C1_Witness ==
    /\ Len(calls) = 1 /\ Searched /\ ReadsWholeDay(calls[1].date)
    /\ PlainContent(calls[1].content) /\ TagNames(calls[1].tags)
    /\ Cardinality(TagSet(calls[1].tags)) = 2

(***************************************************************************)
(* C2  Append-only ordering                                                *)
(***************************************************************************)
IsPrefix(a, b) == Len(a) <= Len(b) /\ SubSeq(b, 1, Len(a)) = a

\* C2: an add_diary keeps the entries the day file had as an unchanged prefix, and
\* what it adds (the entries of the new section) comes after all of them, whatever
\* the new entry's time of day.
C2_AppendOnly ==
    [][(last'.op = "add_diary" /\ last'.date # <<>> /\ last.op = "none") =>
          LET before == _load_diary(files, last'.date)
              after == _load_diary(files', last'.date)
              c == calls'[Len(calls')]
          IN  /\ IsPrefix(before, after)
              /\ SubSeq(after, Len(before) + 1, Len(after))
                    = _parse_entries(Strip(EntryBlock(c.time, c.content, c.tags)), c.date)]_vars

\* an 08:00 entry appended after a 20:00 entry stays second
C2_Witness ==
    /\ Len(calls) = 2 /\ calls[1].date = calls[2].date
    /\ calls[1].time = <<"2", "0", ":", "0", "0">> /\ calls[2].time = <<"0", "8", ":", "0", "0">>
    /\ LET entries == _load_diary(files, calls[1].date)
       IN  /\ Len(entries) = 2
           /\ entries[1].content = calls[1].content
           /\ entries[2].content = calls[2].content
           /\ entries[1].content # entries[2].content

(***************************************************************************)
(* C3  The frontmatter tags are the sorted union of the entries' tags      *)
(***************************************************************************)
\* C3 as claimed: after every add_diary that wrote, the first one for a day
\* included, the frontmatter tags list of the day file is the sorted,
\* duplicate-free union of the tags of all entries of the file.
C3_FrontmatterIsSortedUnion ==
    Wrote => FrontmatterTags(files[_get_diary_file(last.date)]) = Sorted(BodyTags(last.date))

(***************************************************************************)
(* C4  The tag union does not depend on the order of two appends           *)
(***************************************************************************)
\* C4 as claimed: after two appends to one day, with tag lists T1 and T2 in either
\* order, the frontmatter tags list is sorted(T1 \cup T2).
C4_TagUnionOrderIndependent ==
    (Len(calls) = 2 /\ calls[1].date = calls[2].date) =>
        FrontmatterTags(files[_get_diary_file(calls[1].date)])
            = Sorted(TagSet(calls[1].tags) \cup TagSet(calls[2].tags))

(***************************************************************************)
(* C5  The range filter compares full datetimes, both bounds inclusive     *)
(***************************************************************************)
\* the entries of the file of date d that pass Test, in the file's order
Stored(d, Test(_)) == SelectSeq(_load_diary(files, d), Test)

\* C5: an unfiltered search with full datetime bounds start and end returns, from
\* every day file, exactly the entries whose timestamp t has start <= t <= end.
C5_RangeIsInclusive ==
    (Searched /\ Unfiltered /\ IsFull(last.start_datetime) /\ IsFull(last.end_datetime)) =>
        LET lo == StrptimeDateTime(last.start_datetime.val)
            hi == StrptimeDateTime(last.end_datetime.val)
        IN  /\ ~last.raised
            /\ \A r \in Range(last.results) : r.file_date \in FileDates
            /\ \A d \in FileDates :
                  EntriesOn(last.results, d) = Stored(d, LAMBDA e : InWindow(e, lo, hi))

\* a search returned an entry stamped exactly at one of its bounds and left out an
\* entry stored on its start day or end day
C5_Witness ==
    /\ Searched /\ Unfiltered /\ IsFull(last.start_datetime) /\ IsFull(last.end_datetime)
    /\ \E r \in Range(last.results) :
          StrptimeDateTime(r.entry.datetime) \in
              {StrptimeDateTime(last.start_datetime.val),
               StrptimeDateTime(last.end_datetime.val)}
    /\ \E d \in FileDates :
          /\ StartsWith(last.start_datetime.val, d) \/ StartsWith(last.end_datetime.val, d)
          /\ Len(EntriesOn(last.results, d)) < Len(_load_diary(files, d))

(***************************************************************************)
(* C6  Date-only bounds cover whole days                                   *)
(***************************************************************************)
\* C6: an unfiltered search with date-only bounds D1 and D2 returns every entry of
\* every day file dated from D1 to D2, and nothing of any other day.
C6_DateOnlyBoundsCoverDays ==
    (/\ Searched /\ Unfiltered
     /\ IsDateOnly(last.start_datetime) /\ IsDateOnly(last.end_datetime)) =>
        LET d1 == StrptimeDate(last.start_datetime.val)
            d2 == StrptimeDate(last.end_datetime.val)
        IN  /\ ~last.raised
            /\ \A r \in Range(last.results) : r.file_date \in FileDates
            /\ \A d \in FileDates :
                  EntriesOn(last.results, d) =
                      IF DtLeq(d1, StrptimeDate(d)) /\ DtLeq(StrptimeDate(d), d2)
                      THEN _load_diary(files, d) ELSE <<>>

\* a date-only search returned an entry written in the last minute of its end day
C6_Witness ==
    /\ Searched /\ Unfiltered
    /\ IsDateOnly(last.start_datetime) /\ IsDateOnly(last.end_datetime)
    /\ \E r \in Range(last.results) :
          /\ r.file_date = last.end_datetime.val
          /\ AfterLastSpace(r.entry.datetime) = <<"2", "3", ":", "5", "9", ":", "0", "0">>

(***************************************************************************)
(* C7  Keyword and tag filters are conjunctive                             *)
(***************************************************************************)
KeywordOk(e) ==
    IsAbsent(last.keyword)
    \/ \E i \in 1..Len(e.content) :
          /\ i + Len(last.keyword.val) - 1 <= Len(e.content)
          /\ \A k \in 1..Len(last.keyword.val) :
                LowerChar(e.content[i + k - 1]) = LowerChar(last.keyword.val[k])

TagOk(e) ==
    IsAbsent(last.tag) \/ \E t \in Range(e.tags) : Lower(t) = Lower(last.tag.val)

\* C7: a search returns, from every day file, exactly the entries that are in the
\* time range and contain the keyword (when given) and carry the tag among their
\* own tags (when given), both compared without regard to case.
C7_FiltersAreConjunctive ==
    (Searched /\ ~last.raised) =>
        LET range == _parse_datetime_range(last.start_datetime, last.end_datetime, now)
        IN  \A d \in FileDates :
               EntriesOn(last.results, d) =
                   Stored(d, LAMBDA e : /\ InWindow(e, range.start_dt, range.end_dt)
                                        /\ KeywordOk(e) /\ TagOk(e))

\* a tag search, in another case than the entry's tag, returned one entry of a day
\* file and left out another entry of the same file
C7_Witness ==
    /\ Searched /\ ~IsAbsent(last.tag)
    /\ \E d \in FileDates :
          /\ Len(EntriesOn(last.results, d)) = 1
          /\ Len(_load_diary(files, d)) = 2
          /\ last.tag.val \notin Range(EntriesOn(last.results, d)[1].tags)

(***************************************************************************)
(* C8  Result ordering                                                     *)
(***************************************************************************)
\* d1 is a later day than d2
LaterDay(d1, d2) == ~DtLeq(StrptimeDate(d1), StrptimeDate(d2))

\* a is b with some elements left out
RECURSIVE IsSubsequence(_, _)
IsSubsequence(a, b) ==
    IF a = <<>> THEN TRUE
    ELSE IF b = <<>> THEN FALSE
    ELSE IF Head(a) = Head(b) THEN IsSubsequence(Tail(a), Tail(b))
    ELSE IsSubsequence(a, Tail(b))

\* the 'Date: ' divider lines of a report, in order, as dates
Dividers(ret) ==
    LET lines == SelectSeq(SplitLines(ret), LAMBDA l : StartsWith(l, Text_Date))
    IN  [i \in DOMAIN lines |-> Slice(lines[i], Len(Text_Date) + 1, Len(lines[i]))]

\* C8: in a search result the days are in strictly descending order with the entries
\* of one day together, each day with results has exactly one 'Date:' divider, and
\* the entries of one day are in the order the day file stores them.
C8_ResultOrdering ==
    (Searched /\ ~last.raised) =>
        LET dates == [i \in DOMAIN last.results |-> last.results[i].file_date]
            dividers == Dividers(last.ret)
        IN  /\ \A i \in 1..(Len(dates) - 1) :
                  dates[i] = dates[i + 1] \/ LaterDay(dates[i], dates[i + 1])
            /\ \A d \in Range(dates) :
                  IsSubsequence(EntriesOn(last.results, d), _load_diary(files, d))
            /\ Range(dividers) = Range(dates)
            /\ \A i \in 1..(Len(dividers) - 1) : LaterDay(dividers[i], dividers[i + 1])

\* a search returned entries of two days in different years, and two entries of one
\* day with the later time of day first
C8_Witness ==
    /\ Searched
    /\ \E i, j \in DOMAIN last.results :
          /\ i < j
          /\ StrptimeDate(last.results[i].file_date).year
                > StrptimeDate(last.results[j].file_date).year
    /\ \E i \in 1..(Len(last.results) - 1) :
          /\ last.results[i].file_date = last.results[i + 1].file_date
          /\ ~DtLeq(StrptimeDateTime(last.results[i].entry.datetime),
                    StrptimeDateTime(last.results[i + 1].entry.datetime))

(***************************************************************************)
(* C9  No match is a message, a missing file is zero entries               *)
(***************************************************************************)
\* a bound that search_diary accepts
BoundOk(b) == IsAbsent(b) \/ IsFull(b) \/ IsDateOnly(b)

\* no entry of any day file passes the filters of the last search
NothingMatches ==
    LET range == _parse_datetime_range(last.start_datetime, last.end_datetime, now)
    IN  \A d \in FileDates : \A e \in Range(_load_diary(files, d)) :
           ~(InWindow(e, range.start_dt, range.end_dt) /\ KeywordOk(e) /\ TagOk(e))

\* C9: a search with bounds that parse raises nothing and returns a non-empty string,
\* which is the 'No matching diary entries found' message when no stored entry
\* matches; a load of a day that has no file gives zero entries.
C9_NoMatchIsAMessage ==
    /\ (Searched /\ BoundOk(last.start_datetime) /\ BoundOk(last.end_datetime)) =>
          /\ ~last.raised
          /\ last.ret # <<>>
          /\ NothingMatches => last.ret = Text_NoMatching
    /\ (last.op = "_load_diary" /\ last.date \notin FileDates) => last.results = <<>>

\* a search found nothing in a store that has a day file outside the range
C9_Witness ==
    /\ Searched /\ last.ret = Text_NoMatching
    /\ files # [p \in {} |-> <<>>]
    /\ \A d \in FileDates : _load_diary(files, d) # <<>>

(***************************************************************************)
(* C10  A datetime that does not parse leaves the store alone              *)
(***************************************************************************)
\* the step is an add_diary call with a datetime string that does not parse
AddsUnparsed ==
    /\ last.op = "none" /\ last'.op = "add_diary"
    /\ last'.datetime_str.some /\ ~StrptimeDateTime(last'.datetime_str.val).ok

Rejected == StartsWith(last'.ret, Text_Invalid) /\ files' = files /\ dirs' = dirs

\* C10: add_diary with a datetime string that does not parse as YYYY-MM-DD HH:MM:SS
\* returns the error string and changes no file and no directory.
C10_UnparsedLeavesStore == [][AddsUnparsed => Rejected]_vars

\* The strings for which C10 fails are the empty ones: 'if datetime_str:' sends the
\* empty string, which no strptime accepts, to the datetime.now() branch, and the
\* entry is written.  Every non-empty string that does not parse is turned down
\* before any mkdir or write.
C10_NonEmptyUnparsedLeavesStore ==
    [][(AddsUnparsed /\ last'.datetime_str.val # <<>>) => Rejected]_vars

\* an add_diary with the empty datetime string wrote a day file
C10_EmptyStringWrites ==
    /\ Wrote /\ last.datetime_str = Some(<<>>)
    /\ _get_diary_file(StrfDate(now)) \in DOMAIN files

(***************************************************************************)
(* C11  A search bound that does not parse                                 *)
(***************************************************************************)
\* a bound that is given and is in neither of the two formats
BoundBad(b) == b.some /\ b.val # <<>> /\ ~IsFull(b) /\ ~IsDateOnly(b)

\* C11: search_diary with a start or end bound that parses neither as
\* YYYY-MM-DD HH:MM:SS nor as YYYY-MM-DD returns a descriptive string and raises
\* nothing.
C11_BadBoundIsAMessage ==
    (Searched /\ (BoundBad(last.start_datetime) \/ BoundBad(last.end_datetime))) =>
        ~last.raised /\ last.ret # <<>>

(***************************************************************************)
(* C12  The default window, under a clock that runs for thirty days        *)
(***************************************************************************)
\* the instants the clock shows: an append, then thirty days later less 30 seconds
\* and less 15 seconds
WindowClock ==
    <<DateTime(2024, 2, 1, 9, 0, 30), DateTime(2024, 3, 2, 9, 0, 0),
      DateTime(2024, 3, 2, 9, 0, 15)>>

Content_later == <<"l", "a", "t", "e", "r">>
SameEvening == StrfDateTime(DateTime(2024, 2, 1, 21, 0, 0))

\* an append stamped with the current time, one later than the first instant, one
\* more than thirty days before it
WindowAddRequests ==
    {Request(Content_jog, None, None),
     Request(Content_later, None, Some(SameEvening)),
     Request(Content_Run, Some(<<Tag_W>>), Some(YearEnd))}

\* searches with both bounds omitted, as None and as the empty string
WindowSearchRequests ==
    {Query(None, None, None, None), Query(None, None, Some(<<>>), Some(<<>>))}

InitWindow ==
    /\ files = [p \in {} |-> <<>>]
    /\ dirs = {}
    /\ now = WindowClock[1]
    /\ calls = <<>>
    /\ last = NoCall
    /\ procs = NoProcs
    /\ db = Database_init
    /\ reply = NoReply

AddDiaryWindow ==
    /\ Idle
    /\ \E r \in WindowAddRequests : add_diary(r.content, r.tags, r.datetime_str)
    /\ UNCHANGED <<procs, db, reply>>

SearchDiaryWindow ==
    /\ Idle
    /\ \E q \in WindowSearchRequests :
          search_diary(q.keyword, q.tag, q.start_datetime, q.end_datetime)
    /\ UNCHANGED <<procs, db, reply>>

TickWindow ==
    /\ Idle
    /\ \E i \in 1..(Len(WindowClock) - 1) : now = WindowClock[i] /\ now' = WindowClock[i + 1]
    /\ UNCHANGED <<files, dirs, calls, last, procs, db, reply>>

NextWindow == AddDiaryWindow \/ SearchDiaryWindow \/ Return \/ TickWindow

SpecWindow == InitWindow /\ [][NextWindow]_vars

\* the days of the months of year y before month m
RECURSIVE DaysBeforeMonth(_, _)
DaysBeforeMonth(y, m) ==
    IF m = 1 THEN 0 ELSE DaysBeforeMonth(y, m - 1) + DaysInMonth(y, m - 1)

\* the seconds from 2000-01-01 00:00:00 to dt, as timedelta arithmetic counts them
\* (730119 days lie between 0001-01-01 and 2000-01-01)
SecondsOf(dt) ==
    LET y == dt.year - 1
        days == 365 * y + (y \div 4) - (y \div 100) + (y \div 400)
                + DaysBeforeMonth(dt.year, dt.month) + (dt.day - 1) - 730119
    IN  ((days * 24 + dt.hour) * 60 + dt.minute) * 60 + dt.second

ThirtyDays == 30 * 24 * 60 * 60

\* the last call was a search with both bounds omitted and no filter
DefaultSearch == Searched /\ Unfiltered /\ IsAbsent(last.start_datetime) /\ IsAbsent(last.end_datetime)

\* the timestamp under which the entry of an append is stored
StoredStamp(call) == StrptimeDateTime(call.date \o <<" ">> \o call.time \o <<":", "0", "0">>)

\* the entry of an append is among the results of the last search
Returned(call) ==
    \E r \in Range(last.results) :
        /\ r.file_date = call.date
        /\ r.entry.content = call.content
        /\ StrptimeDateTime(r.entry.datetime) = StoredStamp(call)

\* C12 as claimed: an entry appended without a datetime is returned by every later
\* default search made within 30 days of the append, and no entry timestamped later
\* than now or more than 30 days before now is returned.
C12_ReturnedWithinThirtyDays ==
    DefaultSearch =>
        /\ \A i \in DOMAIN calls :
              (/\ ~Truthy(calls[i].datetime_str)
               /\ SecondsOf(now) - SecondsOf(calls[i].at) <= ThirtyDays) => Returned(calls[i])
        /\ \A r \in Range(last.results) :
              LET t == SecondsOf(StrptimeDateTime(r.entry.datetime))
              IN  SecondsOf(now) - ThirtyDays <= t /\ t <= SecondsOf(now)

\* C12 amended: the window [now - 30 days, now] is compared with the stored
\* timestamps, which have the seconds cut off.  An entry appended without a datetime
\* is returned by a later default search exactly when the search is made no more
\* than 30 days after the append's time cut to the minute; every stored entry inside
\* the window is returned and no entry outside it.
C12_DefaultWindow ==
    DefaultSearch =>
        /\ ~last.raised
        /\ \A i \in DOMAIN calls :
              ~Truthy(calls[i].datetime_str) =>
                  /\ SecondsOf(StoredStamp(calls[i]))
                        = SecondsOf(calls[i].at) - calls[i].at.second
                  /\ Returned(calls[i])
                        <=> SecondsOf(now) - SecondsOf(StoredStamp(calls[i])) <= ThirtyDays
        /\ \A i \in DOMAIN calls :
              Returned(calls[i])
                  <=> /\ SecondsOf(now) - ThirtyDays <= SecondsOf(StoredStamp(calls[i]))
                      /\ SecondsOf(StoredStamp(calls[i])) <= SecondsOf(now)
        /\ \A r \in Range(last.results) :
              \E i \in DOMAIN calls :
                 /\ r.file_date = calls[i].date /\ r.entry.content = calls[i].content
                 /\ StrptimeDateTime(r.entry.datetime) = StoredStamp(calls[i])

\* a default search made thirty days after the stored minute of an append returned
\* its entry and left out an older entry of the store
C12_Witness ==
    /\ DefaultSearch /\ now = WindowClock[2]
    /\ \E i, j \in DOMAIN calls :
          /\ ~Truthy(calls[i].datetime_str) /\ calls[i].at = WindowClock[1]
          /\ Returned(calls[i])
          /\ ~Returned(calls[j])

(***************************************************************************)
(* C15  Every day file holds at least one entry                            *)
(***************************************************************************)
\* C15 as claimed: in every reachable state of the store, every day file that
\* exists parses to at least one entry.
C15_EveryDayFileHasAnEntry ==
    \A d \in FileDates : _load_diary(files, d) # <<>>

(***************************************************************************)
(* C16  Reads leave the store unchanged                                    *)
(***************************************************************************)
\* the directories that the day files of fs need
ParentsOf(fs) == UNION {Mkdir({}, p) : p \in DOMAIN fs}

\* the year and month directories of the day file of date both exist
HasDirs(date) == Mkdir({}, _get_diary_file(date)) \subseteq dirs

\* C16: a search_diary or a _load_diary leaves every file and every directory as
\* it was, whether or not the days it reads have a file; a step that changes a
\* file or a directory is an add_diary, so the directories that exist are the
\* parents of the day files.
C16_ReadsLeaveStoreUnchanged ==
    [][/\ (last.op = "none" /\ last'.op \in {"search_diary", "_load_diary"}) =>
              files' = files /\ dirs' = dirs
       /\ (files' # files \/ dirs' # dirs) => last.op = "none" /\ last'.op = "add_diary"
       /\ dirs' = ParentsOf(files')]_vars

\* a day that has no file and no month directory was loaded, or a search over such
\* a day was made, in a store that has a file for another day
C16_Witness ==
    /\ files # [p \in {} |-> <<>>]
    /\ \/ last.op = "_load_diary" /\ ~HasDirs(last.date)
       \/ /\ Searched /\ IsDateOnly(last.start_datetime)
          /\ ~HasDirs(last.start_datetime.val) /\ ~last.raised

(***************************************************************************)
(* add_diary and reads running in independent processes                    *)
(***************************************************************************)
\* Two processes each run one add_diary for the same day while a third runs a
\* _load_diary or a search_diary over that day.  A step is one access to the
\* file system; what a process holds between its steps is in procs.
Writers == {"w1", "w2"}
Readers == {"r"}

\* the add_diary call of each writing process
ProcessRequest(p) ==
    IF p = "w1" THEN Request(Content_Run, Some(<<Tag_W>>), Some(Evening))
    ELSE Request(Content_jog, None, Some(Evening))

\* the search_diary call of the reading process
ProcessQuery == Query(None, None, Some(Day_Jan31), Some(Day_Jan31))

Path_day == _get_diary_file(Day_Jan31)

NoFiles == [p \in {} |-> <<>>]

\* the call that filled the store before the processes start
CallBefore ==
    [date |-> Day_Jan31, time |-> StrfHourMinute(StrptimeDateTime(Morning)),
     content |-> Content_jog, tags |-> Some(<<Tag_W>>), datetime_str |-> Some(Morning),
     at |-> Clock[1], pid |-> "before"]

\* the store after that call
StoreBefore ==
    _append_entry_to_markdown(NoFiles, CallBefore.date, CallBefore.time,
                              CallBefore.content, CallBefore.tags, CallBefore.at)

\* a process that has not started
NoProc ==
    [pc |-> "start", op |-> "none", existing_content |-> <<>>, new_content |-> <<>>,
     file_dates |-> <<>>, seen |-> <<>>, results |-> <<>>, ret |-> <<>>,
     early |-> FALSE, under |-> <<>>]

InitProcesses ==
    /\ \/ files = NoFiles /\ dirs = {} /\ calls = <<>>
       \/ files = StoreBefore /\ dirs = Mkdir({}, Path_day) /\ calls = <<CallBefore>>
    /\ now = Clock[1]
    /\ last = NoCall
    /\ procs = [p \in Writers \cup Readers |-> NoProc]
    /\ db = Database_init
    /\ reply = NoReply

\* process p goes on to rec
Step(p, rec) == procs' = [procs EXCEPT ![p] = rec]

\* p has opened the day file for writing
Began(p) == procs[p].pc \in {"write", "return", "done"}

NoneBegan == \A q \in Writers : ~Began(q)

\* the text of the existing-file branch of _append_entry_to_markdown: the body is
\* that of the text read first, the tags are collected from a second read
Rewritten(existing_content, fs, date, time_str, content, tags, clock) ==
    _build_frontmatter(date, _collect_all_tags(fs, date, tags), clock)
    \o <<"\n">> \o Body(existing_content) \o EntryBlock(time_str, content, tags)

\* s without its first n characters
DropFirst(s, n) == SubSeq(s, n + 1, Len(s))

\* add_diary up to diary_file.parent.mkdir
AppendMkdir ==
    \E p \in Writers :
       /\ procs[p].pc = "start"
       /\ dirs' = Mkdir(dirs, Path_day)
       /\ Step(p, [procs[p] EXCEPT !.pc = "exists", !.op = "add_diary"])
       /\ UNCHANGED <<files, now, calls, last, db, reply>>

\* diary_file.exists(), and the text of a new file when there is none
AppendExists ==
    \E p \in Writers :
       LET r == ProcessRequest(p)
           time_str == StrfHourMinute(StrptimeDateTime(r.datetime_str.val))
       IN  /\ procs[p].pc = "exists"
           /\ IF Path_day \in DOMAIN files
              THEN Step(p, [procs[p] EXCEPT !.pc = "read"])
              ELSE Step(p, [procs[p] EXCEPT
                              !.pc = "open", !.early = NoneBegan,
                              !.new_content =
                                  NewContent(files, Day_Jan31, time_str, r.content, r.tags, now)])
           /\ UNCHANGED <<files, dirs, now, calls, last, db, reply>>

\* existing_content = diary_file.read_text()
AppendRead ==
    \E p \in Writers :
       /\ procs[p].pc = "read"
       /\ Step(p, [procs[p] EXCEPT !.pc = "collect", !.existing_content = files[Path_day]])
       /\ UNCHANGED <<files, dirs, now, calls, last, db, reply>>

\* _collect_all_tags reads the file again; then the new text is built
AppendCollect ==
    \E p \in Writers :
       LET r == ProcessRequest(p)
           time_str == StrfHourMinute(StrptimeDateTime(r.datetime_str.val))
       IN  /\ procs[p].pc = "collect"
           /\ Step(p, [procs[p] EXCEPT
                         !.pc = "open", !.early = NoneBegan,
                         !.new_content = Rewritten(procs[p].existing_content, files, Day_Jan31,
                                                   time_str, r.content, r.tags, now)])
           /\ UNCHANGED <<files, dirs, now, calls, last, db, reply>>

\* write_text opens the file with mode 'w': the file is there and empty
WriteOpen ==
    \E p \in Writers :
       /\ procs[p].pc = "open"
       /\ files' = [q \in DOMAIN files \cup {Path_day} |->
                       IF q = Path_day THEN <<>> ELSE files[q]]
       /\ Step(p, [procs[p] EXCEPT !.pc = "write"])
       /\ UNCHANGED <<dirs, now, calls, last, db, reply>>

\* write_text writes its text from the start of the file and closes it: what
\* another process wrote beyond the length of this text stays
WriteData ==
    \E p \in Writers :
       LET r == ProcessRequest(p)
           text == procs[p].new_content
       IN  /\ procs[p].pc = "write"
           /\ files' = [files EXCEPT
                          ![Path_day] = text \o DropFirst(files[Path_day], Len(text))]
           /\ calls' = Append(calls,
                              [date |-> Day_Jan31,
                               time |-> StrfHourMinute(StrptimeDateTime(r.datetime_str.val)),
                               content |-> r.content, tags |-> r.tags,
                               datetime_str |-> r.datetime_str, at |-> now, pid |-> p])
           /\ Step(p, [procs[p] EXCEPT !.pc = "return", !.under = files[Path_day]])
           /\ UNCHANGED <<dirs, now, last, db, reply>>

\* add_diary returns its confirmation
AddReturn ==
    \E p \in Writers :
       LET r == ProcessRequest(p)
       IN  /\ procs[p].pc = "return"
           /\ Step(p, [procs[p] EXCEPT
                         !.pc = "done",
                         !.ret = Text_Added \o r.datetime_str.val
                                 \o (IF Truthy(r.tags)
                                     THEN Text_tags_open \o Join(r.tags.val, <<",", " ">>) \o <<"]">>
                                     ELSE <<>>)])
           /\ UNCHANGED <<files, dirs, now, calls, last, db, reply>>

\* _load_diary: diary_file.exists()
LoadExists ==
    \E p \in Readers :
       /\ procs[p].pc = "start"
       /\ Step(p, [procs[p] EXCEPT !.op = "_load_diary",
                                   !.pc = IF Path_day \in DOMAIN files THEN "read" ELSE "done"])
       /\ UNCHANGED <<files, dirs, now, calls, last, db, reply>>

\* the entries of text as results of a read of the day
AsResults(entries) ==
    [i \in DOMAIN entries |-> [file_date |-> Day_Jan31, entry |-> entries[i]]]

\* _load_diary: read_text and parse
LoadRead ==
    \E p \in Readers :
       /\ procs[p].pc = "read"
       /\ Step(p, [procs[p] EXCEPT !.pc = "done", !.seen = <<files[Path_day]>>,
                                   !.results = AsResults(_load_diary(files, Day_Jan31))])
       /\ UNCHANGED <<files, dirs, now, calls, last, db, reply>>

\* search_diary: the bounds are parsed and _iter_diary_files lists the day files
SearchGlob ==
    \E p \in Readers :
       LET range == _parse_datetime_range(ProcessQuery.start_datetime,
                                          ProcessQuery.end_datetime, now)
       IN  /\ procs[p].pc = "start"
           /\ Step(p, [procs[p] EXCEPT
                         !.op = "search_diary", !.pc = "loop",
                         !.file_dates = _iter_diary_files(files, StrfDate(range.start_dt),
                                                          StrfDate(range.end_dt))])
           /\ UNCHANGED <<files, dirs, now, calls, last, db, reply>>

\* search_diary: one turn of its loop, the _load_diary of the next listed file
SearchLoad ==
    \E p \in Readers :
       LET range == _parse_datetime_range(ProcessQuery.start_datetime,
                                          ProcessQuery.end_datetime, now)
           file_date == Head(procs[p].file_dates)
       IN  /\ procs[p].pc = "loop" /\ procs[p].file_dates # <<>>
           /\ Step(p, [procs[p] EXCEPT
                         !.file_dates = Tail(procs[p].file_dates),
                         !.seen = Append(procs[p].seen, files[_get_diary_file(file_date)]),
                         !.results = procs[p].results
                                     \o Matching(_load_diary(files, file_date), file_date,
                                                 range.start_dt, range.end_dt,
                                                 ProcessQuery.keyword, ProcessQuery.tag)])
           /\ UNCHANGED <<files, dirs, now, calls, last, db, reply>>

\* search_diary: the loop is over, the results are formatted
SearchReturn ==
    \E p \in Readers :
       /\ procs[p].pc = "loop" /\ procs[p].file_dates = <<>>
       /\ Step(p, [procs[p] EXCEPT !.pc = "done",
                                   !.ret = _format_search_results(procs[p].results)])
       /\ UNCHANGED <<files, dirs, now, calls, last, db, reply>>

NextProcesses ==
    \/ AppendMkdir \/ AppendExists \/ AppendRead \/ AppendCollect
    \/ WriteOpen \/ WriteData \/ AddReturn
    \/ LoadExists \/ LoadRead \/ SearchGlob \/ SearchLoad \/ SearchReturn

SpecProcesses == InitProcesses /\ [][NextProcesses]_vars

\* the store the processes started from
FilesAtStart == IF calls # <<>> /\ calls[1].pid = "before" THEN StoreBefore ELSE NoFiles

\* the process whose text was written last
LastWriter == calls[Len(calls)].pid

\* the add_diary calls of both processes have returned
BothDone == \A p \in Writers : procs[p].pc = "done"

\* both processes had read the file for the last time before either opened it
\* for writing
BothReadFirst == \A p \in Writers : procs[p].early

\* the store holds what the store at start held and then the entry of p alone
OnlyEntryOf(p) ==
    LET r == ProcessRequest(p)
        time_str == StrfHourMinute(StrptimeDateTime(r.datetime_str.val))
    IN  /\ files[Path_day] = procs[p].new_content
        /\ _load_diary(files, Day_Jan31)
              = _load_diary(FilesAtStart, Day_Jan31)
                \o _parse_entries(Strip(EntryBlock(time_str, r.content, r.tags)), Day_Jan31)

(***************************************************************************)
(* C13  Lost update                                                        *)
(***************************************************************************)
\* C13 as claimed: when both processes read the file before either writes, both
\* return a confirmation and the final file holds, after what was stored before,
\* only the entry of the process that wrote last.
C13_LastWriterWins ==
    (BothDone /\ BothReadFirst) =>
        /\ \A p \in Writers : StartsWith(procs[p].ret, Text_Added)
        /\ OnlyEntryOf(LastWriter)

\* What holds of the code: the same, when the last writer wrote into the file it
\* had emptied itself (the other process wrote nothing in between).
C13_LostUpdateWithoutOverlap ==
    (BothDone /\ BothReadFirst /\ procs[LastWriter].under = <<>>) =>
        /\ \A p \in Writers : StartsWith(procs[p].ret, Text_Added)
        /\ OnlyEntryOf(LastWriter)

(***************************************************************************)
(* C14  The rewrite is atomic for a concurrent reader                      *)
(***************************************************************************)
\* one add_diary alone has run, or is running, beside the reader
OneWriter == \E p \in Writers : procs[p].pc = "start"

\* C14 as claimed: a _load_diary or search_diary that runs while one add_diary
\* rewrites the day file reads the complete old text or the complete new text,
\* and returns every entry stored before the append.
C14_ReaderSeesOldOrNew ==
    \A r \in Readers :
       (procs[r].pc = "done" /\ OneWriter) =>
           /\ \A i \in DOMAIN procs[r].seen :
                 \/ Path_day \in DOMAIN FilesAtStart
                       /\ procs[r].seen[i] = FilesAtStart[Path_day]
                 \/ \E p \in Writers : procs[r].seen[i] = procs[p].new_content
           /\ IsPrefix(AsResults(_load_diary(FilesAtStart, Day_Jan31)), procs[r].results)

(***************************************************************************)
(* The database and the tools on it                                        *)
(***************************************************************************)
Text_pending == <<"p", "e", "n", "d", "i", "n", "g">>
Text_completed == <<"c", "o", "m", "p", "l", "e", "t", "e", "d">>
Text_created_at == <<"2", "0", "2", "4", "-", "0", "1", "-", "3", "0", " ", "1", "0", ":", "0", "0", ":", "0", "0">>

\* a row of table todo, as the CREATE TABLE of Database._create_tables has it
TodoRow(id, content, status, completed_at) ==
    [id |-> id, content |-> content, topic |-> None, status |-> status,
     due_date |-> None, completed_at |-> completed_at, created_at |-> Text_created_at]

\* a row of table health
HealthRow(id, metric_type, value, unit, note, date) ==
    [id |-> id, metric_type |-> metric_type, value |-> value, unit |-> unit,
     note |-> note, date |-> date, created_at |-> Text_created_at]

\* a row of table finance
FinanceRow(id, type, amount, category, date) ==
    [id |-> id, type |-> type, amount |-> amount, category |-> category,
     source |-> None, note |-> None, date |-> date, created_at |-> Text_created_at]

\* datetime.isoformat() of a time without microseconds
IsoFormat(dt) ==
    StrfDate(dt) \o <<"T">> \o StrfHourMinute(dt) \o <<":">> \o Digits(dt.second, 2)

\* content LIKE '%match%': the match occurs in the content, letters compared
\* without case (for a match that holds no % and no _)
Like(content, match) == Contains(Lower(content), Lower(match))

\* fetchone: the index of the first of the rows at the indexes S, 0 when S is empty
fetchone(S) == IF S = {} THEN 0 ELSE CHOOSE i \in S : \A j \in S : i <= j

\* SELECT id, content FROM todo WHERE id = ? AND status = 'pending'
PendingWithId(rows, id) ==
    fetchone({i \in DOMAIN rows : rows[i].id = id /\ rows[i].status = Text_pending})

\* SELECT id, content FROM todo WHERE content LIKE ? AND status = 'pending' LIMIT 1
PendingLike(rows, match) ==
    fetchone({i \in DOMAIN rows : Like(rows[i].content, match) /\ rows[i].status = Text_pending})

\* the UPDATE, had it no WHERE clause
UpdateCompleted_EveryRow(rows, id, completed_at) ==
    [i \in DOMAIN rows |->
        [rows[i] EXCEPT !.status = Text_completed, !.completed_at = Some(completed_at)]]

\* UPDATE todo SET status = 'completed', completed_at = ? WHERE id = ?
UpdateCompleted(rows, id, completed_at) ==
    [i \in DOMAIN rows |->
        IF rows[i].id = id
        THEN [rows[i] EXCEPT !.status = Text_completed, !.completed_at = Some(completed_at)]
        ELSE rows[i]]

\* str(n) of a small number
Str(n) == IF n < 10 THEN Digits(n, 1) ELSE Digits(n, 2)

Text_TodoWithId == <<"E", "r", "r", "o", "r", ":", " ", "T", "o", "d", "o", " ", "w", "i", "t", "h", " ", "I", "D", " ">>
Text_not_found == <<" ", "n", "o", "t", " ", "f", "o", "u", "n", "d">>
Text_CompletedTodo == <<"C", "o", "m", "p", "l", "e", "t", "e", "d", " ", "t", "o", "d", "o", ":", " ">>
Text_NoPendingMatching == <<"E", "r", "r", "o", "r", ":", " ", "N", "o", " ", "p", "e", "n", "d", "i", "n", "g", " ", "t", "o", "d", "o", " ", "f", "o", "u", "n", "d", " ", "m", "a", "t", "c", "h", "i", "n", "g", " ", "'">>
Text_PleaseProvide == <<"E", "r", "r", "o", "r", ":", " ", "P", "l", "e", "a", "s", "e", " ", "p", "r", "o", "v", "i", "d", "e", " ", "t", "o", "d", "o", "_", "i", "d", " ", "o", "r", " ", "c", "o", "n", "t", "e", "n", "t", "_", "m", "a", "t", "c", "h">>

\* a call of a function on the database that is not answered yet
DbCall(op, args) ==
    [op |-> op, args |-> args, ret |-> <<>>, table |-> "none", rows |-> <<>>,
     raised |-> FALSE, error |-> <<>>]

\* complete_todo
complete_todo(todo_id, content_match) ==
    LET call == DbCall("complete_todo", [todo_id |-> todo_id, content_match |-> content_match])
        by_id == PendingWithId(db.todo, todo_id.val)
        by_content == PendingLike(db.todo, content_match.val)
    IN  IF todo_id.some /\ todo_id.val # 0
        THEN IF by_id = 0
             THEN /\ last' = [call EXCEPT !.ret = Text_TodoWithId \o Str(todo_id.val)
                                                 \o Text_not_found]
                  /\ UNCHANGED db
             ELSE /\ db' = [db EXCEPT !.todo = UpdateCompleted(db.todo, todo_id.val,
                                                               IsoFormat(now))]
                  /\ last' = [call EXCEPT !.ret = Text_CompletedTodo \o db.todo[by_id].content]
        ELSE IF Truthy(content_match)
        THEN IF by_content = 0
             THEN /\ last' = [call EXCEPT !.ret = Text_NoPendingMatching
                                                 \o content_match.val \o <<"'">>]
                  /\ UNCHANGED db
             ELSE /\ db' = [db EXCEPT !.todo = UpdateCompleted(db.todo, db.todo[by_content].id,
                                                               IsoFormat(now))]
                  /\ last' = [call EXCEPT !.ret = Text_CompletedTodo
                                                 \o db.todo[by_content].content]
        ELSE /\ last' = [call EXCEPT !.ret = Text_PleaseProvide]
             /\ UNCHANGED db

\* a column of a table: its name, the field of the row, how str() shows the value
Column(name, field, kind) == [name |-> name, field |-> field, kind |-> kind]

\* the columns of the tables, in the order of their CREATE TABLE
Columns(table) ==
    IF table = "finance"
    THEN <<Column(<<"i", "d">>, "id", "int"), Column(<<"t", "y", "p", "e">>, "type", "text"),
           Column(<<"a", "m", "o", "u", "n", "t">>, "amount", "text"), Column(<<"c", "a", "t", "e", "g", "o", "r", "y">>, "category", "opt"),
           Column(<<"s", "o", "u", "r", "c", "e">>, "source", "opt"), Column(<<"n", "o", "t", "e">>, "note", "opt"),
           Column(<<"d", "a", "t", "e">>, "date", "text"), Column(<<"c", "r", "e", "a", "t", "e", "d", "_", "a", "t">>, "created_at", "text")>>
    ELSE IF table = "todo"
    THEN <<Column(<<"i", "d">>, "id", "int"), Column(<<"c", "o", "n", "t", "e", "n", "t">>, "content", "text"),
           Column(<<"t", "o", "p", "i", "c">>, "topic", "opt"), Column(<<"s", "t", "a", "t", "u", "s">>, "status", "text"),
           Column(<<"d", "u", "e", "_", "d", "a", "t", "e">>, "due_date", "opt"),
           Column(<<"c", "o", "m", "p", "l", "e", "t", "e", "d", "_", "a", "t">>, "completed_at", "opt"),
           Column(<<"c", "r", "e", "a", "t", "e", "d", "_", "a", "t">>, "created_at", "text")>>
    ELSE <<Column(<<"i", "d">>, "id", "int"), Column(<<"m", "e", "t", "r", "i", "c", "_", "t", "y", "p", "e">>, "metric_type", "text"),
           Column(<<"v", "a", "l", "u", "e">>, "value", "text"), Column(<<"u", "n", "i", "t">>, "unit", "opt"),
           Column(<<"n", "o", "t", "e">>, "note", "opt"), Column(<<"d", "a", "t", "e">>, "date", "text"),
           Column(<<"c", "r", "e", "a", "t", "e", "d", "_", "a", "t">>, "created_at", "text")>>

Text_None == <<"N", "o", "n", "e">>

\* str(v) of the value of column c in row
CellText(row, c) ==
    IF c.kind = "int" THEN Str(row[c.field])
    ELSE IF c.kind = "opt" THEN (IF row[c.field].some THEN row[c.field].val ELSE Text_None)
    ELSE row[c.field]

\* the index after the word of s that starts at i
RECURSIVE WordEnd(_, _)
WordEnd(s, i) ==
    IF i <= Len(s) /\ s[i] \notin {" ", "\n", ";", ","} THEN WordEnd(s, i + 1) ELSE i

\* the word of s that starts at i
Word(s, i) == Slice(s, i, WordEnd(s, i) - 1)

\* the table a name stands for
TableNamed(name) ==
    IF name = <<"f", "i", "n", "a", "n", "c", "e">> THEN "finance"
    ELSE IF name = <<"t", "o", "d", "o">> THEN "todo"
    ELSE IF name = <<"h", "e", "a", "l", "t", "h">> THEN "health"
    ELSE "none"

Text_select == <<"s", "e", "l", "e", "c", "t">>
Text_delete == <<"d", "e", "l", "e", "t", "e">>
Text_from == <<" ", "f", "r", "o", "m", " ">>
Text_comment == <<"-", "-">>
Text_OneStatement == <<"Y", "o", "u", " ", "c", "a", "n", " ", "o", "n", "l", "y", " ", "e", "x", "e", "c", "u", "t", "e", " ", "o", "n", "e", " ", "s", "t", "a", "t", "e", "m", "e", "n", "t", " ", "a", "t", " ", "a", " ", "t", "i", "m", "e", ".">>
Text_no_such_table == <<"n", "o", " ", "s", "u", "c", "h", " ", "t", "a", "b", "l", "e", ":", " ">>
Text_near == <<"n", "e", "a", "r", " ", "\"">>
Text_syntax_error == <<"\"", ":", " ", "s", "y", "n", "t", "a", "x", " ", "e", "r", "r", "o", "r">>

\* A statement of which the parts are found: s is the text without the white
\* space around it and in lower case, first its first word as it was written,
\* verb the same in lower case, from the index of ' from ' in s (0 for none).
StatementAt(s, first, verb, from) ==
    LET semi == Find(s, <<";">>, 1)
        name == Word(s, from + Len(Text_from))
        rest == Strip(Slice(s, from + Len(Text_from) + Len(name), Len(s)))
        shape == /\ from # 0
                 /\ rest = <<>> \/ StartsWith(rest, Text_comment)
                 /\ verb = Text_select => Strip(Slice(s, Len(verb) + 1, from)) = <<"*">>
                 /\ verb = Text_delete => from = Len(verb) + 1
    IN  IF semi # 0 /\ Strip(Slice(s, semi + 1, Len(s))) # <<>>
        THEN [kind |-> "many", first |-> first, name |-> name, table |-> "none"]
        ELSE IF verb \in {Text_select, Text_delete} /\ shape
        THEN [kind |-> IF verb = Text_select THEN "select" ELSE "delete",
              first |-> first, name |-> name, table |-> TableNamed(name)]
        ELSE [kind |-> "error", first |-> first, name |-> name, table |-> "none"]

StatementOf(s, first) == StatementAt(s, first, Lower(first), Find(s, Text_from, 1))

\* How sqlite reads a statement of the forms 'SELECT * FROM t' and 'DELETE FROM t',
\* each with an optional '-- comment' after it: keywords and names without case,
\* white space around skipped.  kind is "many" for more than one statement and
\* "error" for a text that begins with a word that is no keyword.
Statement(sql) == StatementOf(Lower(Strip(sql)), Word(Strip(sql), 1))

\* what cursor.execute does with statement st on the tables d
Executed(d, st) ==
    LET cursor == [raised |-> FALSE, error |-> <<>>, table |-> "none", rows |-> <<>>, db |-> d]
    IN  IF st.kind = "many" THEN [cursor EXCEPT !.raised = TRUE, !.error = Text_OneStatement]
        ELSE IF st.kind = "error"
        THEN [cursor EXCEPT !.raised = TRUE,
                            !.error = Text_near \o st.first \o Text_syntax_error]
        ELSE IF st.table = "none"
        THEN [cursor EXCEPT !.raised = TRUE, !.error = Text_no_such_table \o st.name]
        ELSE IF st.kind = "select"
        THEN [cursor EXCEPT !.table = st.table, !.rows = d[st.table]]
        ELSE [cursor EXCEPT !.table = st.table, !.db = [d EXCEPT ![st.table] = <<>>]]

\* Database.execute(sql): the cursor, or the error sqlite3 raises, and the tables after
execute(d, sql) == Executed(d, Statement(sql))

\* c repeated n times
RECURSIVE Repeat(_, _)
Repeat(c, n) == IF n = 0 THEN <<>> ELSE <<c>> \o Repeat(c, n - 1)

\* the lines of the rows of a cursor, each ended by a newline
RECURSIVE RowLines(_, _)
RowLines(rows, columns) ==
    IF rows = <<>> THEN <<>>
    ELSE Join([i \in DOMAIN columns |-> CellText(Head(rows), columns[i])], <<" ", "|", " ">>)
         \o <<"\n">> \o RowLines(Tail(rows), columns)

\* the header line, the line of dashes under it and the lines of the rows
FormatRows(columns, header, rows) ==
    header \o Repeat("-", Len(header)) \o <<"\n">> \o RowLines(rows, columns)

FormatColumns(columns, rows) ==
    FormatRows(columns,
               Join([i \in DOMAIN columns |-> columns[i].name], <<" ", "|", " ">>) \o <<"\n">>,
               rows)

\* the table that query_finance and _query_health_sql format
FormatTable(cursor) == FormatColumns(Columns(cursor.table), cursor.rows)

Text_OnlySelect == <<"E", "r", "r", "o", "r", ":", " ", "O", "n", "l", "y", " ", "S", "E", "L", "E", "C", "T", " ", "q", "u", "e", "r", "i", "e", "s", " ", "a", "r", "e", " ", "a", "l", "l", "o", "w", "e", "d">>
Text_PleaseFinance == <<"E", "r", "r", "o", "r", ":", " ", "P", "l", "e", "a", "s", "e", " ", "q", "u", "e", "r", "y", " ", "t", "h", "e", " ", "f", "i", "n", "a", "n", "c", "e", " ", "t", "a", "b", "l", "e">>
Text_PleaseHealth == <<"E", "r", "r", "o", "r", ":", " ", "P", "l", "e", "a", "s", "e", " ", "q", "u", "e", "r", "y", " ", "t", "h", "e", " ", "h", "e", "a", "l", "t", "h", " ", "t", "a", "b", "l", "e">>
Text_NoResults == <<"N", "o", " ", "r", "e", "s", "u", "l", "t", "s", " ", "f", "o", "u", "n", "d">>
Text_QueryError == <<"Q", "u", "e", "r", "y", " ", "e", "r", "r", "o", "r", ":", " ">>
Text_finance == <<"f", "i", "n", "a", "n", "c", "e">>
Text_health == <<"h", "e", "a", "l", "t", "h">>

\* the answer of both query functions for the cursor that execute gave
Answer(call, cursor) ==
    /\ db' = cursor.db
    /\ last' = IF cursor.raised THEN [call EXCEPT !.ret = Text_QueryError \o cursor.error]
               ELSE IF cursor.rows = <<>>
               THEN [call EXCEPT !.ret = Text_NoResults, !.table = cursor.table]
               ELSE [call EXCEPT !.ret = FormatTable(cursor), !.table = cursor.table,
                                 !.rows = cursor.rows]

\* what both query functions do once the text has passed their checks
RunQuery(call, sql) == Answer(call, execute(db, sql))

\* query_finance
query_finance(sql) ==
    LET sql_lower == Lower(Strip(sql))
        call == DbCall("query_finance", [sql |-> sql])
    IN  IF ~StartsWith(sql_lower, Text_select)
        THEN last' = [call EXCEPT !.ret = Text_OnlySelect] /\ UNCHANGED db
        ELSE IF ~Contains(sql_lower, Text_finance)
        THEN last' = [call EXCEPT !.ret = Text_PleaseFinance] /\ UNCHANGED db
        ELSE RunQuery(call, sql)

\* _query_health_sql, had it not looked at the first word of the statement
_query_health_sql_any(sql) ==
    LET sql_lower == Lower(Strip(sql))
        call == DbCall("_query_health_sql", [sql |-> sql])
    IN  IF ~Contains(sql_lower, Text_health)
        THEN last' = [call EXCEPT !.ret = Text_PleaseHealth] /\ UNCHANGED db
        ELSE RunQuery(call, sql)

\* _query_health_sql
_query_health_sql(sql) ==
    LET sql_lower == Lower(Strip(sql))
        call == DbCall("_query_health_sql", [sql |-> sql])
    IN  IF ~StartsWith(sql_lower, Text_select)
        THEN last' = [call EXCEPT !.ret = Text_OnlySelect] /\ UNCHANGED db
        ELSE IF ~Contains(sql_lower, Text_health)
        THEN last' = [call EXCEPT !.ret = Text_PleaseHealth] /\ UNCHANGED db
        ELSE RunQuery(call, sql)

\* METRIC_UNITS.get(metric_type, "")
MetricUnit(metric_type) ==
    IF metric_type = <<"b", "l", "o", "o", "d", "_", "p", "r", "e", "s", "s", "u", "r", "e">> THEN <<"m", "m", "H", "g">>
    ELSE IF metric_type = <<"h", "e", "a", "r", "t", "_", "r", "a", "t", "e">> THEN <<"b", "p", "m">>
    ELSE IF metric_type = <<"w", "e", "i", "g", "h", "t">> THEN <<"k", "g">>
    ELSE IF metric_type = <<"b", "l", "o", "o", "d", "_", "s", "u", "g", "a", "r">> THEN <<"m", "m", "o", "l", "/", "L">>
    ELSE IF metric_type = <<"s", "l", "e", "e", "p">> THEN <<"h", "o", "u", "r", "s">>
    ELSE IF metric_type = <<"e", "x", "e", "r", "c", "i", "s", "e">> THEN <<"m", "i", "n", "u", "t", "e", "s">>
    ELSE <<>>

\* METRIC_NAMES.get(metric_type, metric_type)
MetricName(metric_type) ==
    IF metric_type = <<"b", "l", "o", "o", "d", "_", "p", "r", "e", "s", "s", "u", "r", "e">> THEN <<"B", "l", "o", "o", "d", " ", "P", "r", "e", "s", "s", "u", "r", "e">>
    ELSE IF metric_type = <<"h", "e", "a", "r", "t", "_", "r", "a", "t", "e">> THEN <<"H", "e", "a", "r", "t", " ", "R", "a", "t", "e">>
    ELSE IF metric_type = <<"w", "e", "i", "g", "h", "t">> THEN <<"W", "e", "i", "g", "h", "t">>
    ELSE IF metric_type = <<"b", "l", "o", "o", "d", "_", "s", "u", "g", "a", "r">> THEN <<"B", "l", "o", "o", "d", " ", "S", "u", "g", "a", "r">>
    ELSE IF metric_type = <<"s", "l", "e", "e", "p">> THEN <<"S", "l", "e", "e", "p">>
    ELSE IF metric_type = <<"e", "x", "e", "r", "c", "i", "s", "e">> THEN <<"E", "x", "e", "r", "c", "i", "s", "e">>
    ELSE metric_type

MaxHealth == 1

\* record_health
record_health(metric_type, value, unit, note, date) ==
    LET record_date == IF Truthy(date) THEN date.val ELSE StrfDate(now)
        unit_text == IF Truthy(unit) THEN unit.val ELSE MetricUnit(metric_type)
        call == DbCall("record_health",
                       [metric_type |-> metric_type, value |-> value, unit |-> unit,
                        note |-> note, date |-> date])
    IN  /\ Len(db.health) < MaxHealth
        /\ db' = [db EXCEPT !.health =
                     Append(db.health, HealthRow(Len(db.health) + 1, metric_type, value,
                                                 Some(unit_text), note, record_date))]
        /\ last' = [call EXCEPT !.ret =
                       <<"R", "e", "c", "o", "r", "d", "e", "d", " ">> \o MetricName(metric_type) \o <<":", " ">> \o value
                       \o <<" ">> \o unit_text
                       \o (IF Truthy(note) THEN <<",", " ", "n", "o", "t", "e", ":", " ">> \o note.val ELSE <<>>)]

\* whether row a comes before row b in ORDER BY date DESC, metric_type
HealthBefore(a, b) ==
    \/ StrLess(b.date, a.date)
    \/ a.date = b.date /\ StrLess(a.metric_type, b.metric_type)

\* rows with row put in its place
RECURSIVE InsertRow(_, _)
InsertRow(rows, row) ==
    IF rows = <<>> THEN <<row>>
    ELSE IF HealthBefore(row, Head(rows)) THEN <<row>> \o rows
    ELSE <<Head(rows)>> \o InsertRow(Tail(rows), row)

\* the rows in the order of the ORDER BY, rows that compare equal in their stored order
RECURSIVE OrderRows(_)
OrderRows(rows) ==
    IF rows = <<>> THEN <<>>
    ELSE InsertRow(OrderRows(SubSeq(rows, 1, Len(rows) - 1)), rows[Len(rows)])

\* SELECT ... FROM health WHERE [metric_type = ? AND] date >= ?
RECURSIVE HealthSince(_, _, _)
HealthSince(rows, metric_type, start_date) ==
    IF rows = <<>> THEN <<>>
    ELSE (IF /\ Truthy(metric_type) => Head(rows).metric_type = metric_type.val
             /\ StrLeq(start_date, Head(rows).date)
          THEN <<Head(rows)>> ELSE <<>>)
         \o HealthSince(Tail(rows), metric_type, start_date)

\* a line of _format_health_rows
HealthLine(row, metric_type) ==
    <<" ", " ">> \o row.date
    \o (IF Truthy(metric_type) THEN <<>>
        ELSE <<" ", "[">> \o MetricName(row.metric_type) \o <<"]">>)
    \o <<":", " ">> \o row.value \o <<" ">>
    \o (IF Truthy(row.unit) THEN row.unit.val ELSE <<>>)
    \o (IF Truthy(row.note) THEN <<" ", "(">> \o row.note.val \o <<")">> ELSE <<>>)

\* _format_health_rows
_format_health_rows(rows, metric_type, days) ==
    LET tail == <<" ", "R", "e", "c", "o", "r", "d", "s", " ", "(", "l", "a", "s", "t", " ">> \o Str(days) \o <<" ", "d", "a", "y", "s", ")", ":">>
    IN  IF rows = <<>>
        THEN <<"N", "o", " ", "h", "e", "a", "l", "t", "h", " ", "r", "e", "c", "o", "r", "d", "s", " ", "i", "n", " ", "t", "h", "e", " ", "l", "a", "s", "t", " ">> \o Str(days) \o <<" ", "d", "a", "y", "s">>
        ELSE Join(<<(IF Truthy(metric_type) THEN MetricName(metric_type.val) ELSE <<"H", "e", "a", "l", "t", "h">>)
                    \o tail, <<>>>>
                  \o [i \in DOMAIN rows |-> HealthLine(rows[i], metric_type)], <<"\n">>)

\* query_health
query_health(metric_type, days, sql) ==
    LET start_date == StrfDate(MinusDays(now, days))
        call == DbCall("query_health", [metric_type |-> metric_type, days |-> days, sql |-> sql])
        rows == OrderRows(HealthSince(db.health, metric_type, start_date))
    IN  IF Truthy(sql) THEN _query_health_sql(sql.val)
        ELSE /\ last' = [call EXCEPT !.ret = _format_health_rows(rows, metric_type, days)]
             /\ UNCHANGED db

(***************************************************************************)
(* The tools that insert into finance and todo, and list_todos             *)
(***************************************************************************)
\* whether the table has a column of the name
HasColumn(table, name) == \E i \in DOMAIN Columns(table) : Columns(table)[i].name = name

\* the first of the names that is no column of the table, <<>> when all are
RECURSIVE NoColumn(_, _)
NoColumn(table, names) ==
    IF names = <<>> THEN <<>>
    ELSE IF ~HasColumn(table, Head(names)) THEN Head(names)
    ELSE NoColumn(table, Tail(names))

Text_expense == <<"e", "x", "p", "e", "n", "s", "e">>
Text_income == <<"i", "n", "c", "o", "m", "e">>
Text_datetime == <<"d", "a", "t", "e", "t", "i", "m", "e">>
Text_due_datetime == <<"d", "u", "e", "_", "d", "a", "t", "e", "t", "i", "m", "e">>
Text_finance_has_no_column == <<"t", "a", "b", "l", "e", " ", "f", "i", "n", "a", "n", "c", "e", " ", "h", "a", "s", " ", "n", "o", " ", "c", "o", "l", "u", "m", "n", " ", "n", "a", "m", "e", "d", " ">>
Text_todo_has_no_column == <<"t", "a", "b", "l", "e", " ", "t", "o", "d", "o", " ", "h", "a", "s", " ", "n", "o", " ", "c", "o", "l", "u", "m", "n", " ", "n", "a", "m", "e", "d", " ">>
Text_no_such_column == <<"n", "o", " ", "s", "u", "c", "h", " ", "c", "o", "l", "u", "m", "n", ":", " ">>
Text_RecordedExpense == <<"R", "e", "c", "o", "r", "d", "e", "d", " ", "e", "x", "p", "e", "n", "s", "e">>
Text_RecordedIncome == <<"R", "e", "c", "o", "r", "d", "e", "d", " ", "i", "n", "c", "o", "m", "e">>
Text_AddedTodo == <<"A", "d", "d", "e", "d", " ", "t", "o", "d", "o", ":", " ">>

\* ", note: " and the note, when there is one
NoteInfo(note) == IF Truthy(note) THEN <<",", " ", "n", "o", "t", "e", ":", " ">> \o note.val ELSE <<>>

\* the answer of an INSERT into finance: sqlite3 raises OperationalError for a
\* column the table does not have (unknown), else the row is added
InsertFinance(call, unknown, row, ret) ==
    IF unknown # <<>>
    THEN /\ last' = [call EXCEPT !.raised = TRUE,
                                 !.error = Text_finance_has_no_column \o unknown]
         /\ UNCHANGED db
    ELSE /\ db' = [db EXCEPT !.finance = Append(db.finance, row)]
         /\ last' = [call EXCEPT !.ret = ret]

\* record_expense; amount is the amount as str() shows it
record_expense(amount, category, note, datetime_str) ==
    InsertFinance(DbCall("record_expense",
                         [amount |-> amount, category |-> category, note |-> note,
                          datetime_str |-> datetime_str]),
                  NoColumn("finance", <<<<"t", "y", "p", "e">>, <<"a", "m", "o", "u", "n", "t">>, <<"c", "a", "t", "e", "g", "o", "r", "y">>, <<"n", "o", "t", "e">>,
                                        Text_datetime>>),
                  [id |-> Len(db.finance) + 1, type |-> Text_expense, amount |-> amount,
                   category |-> Some(category), source |-> None, note |-> note,
                   datetime |-> IF Truthy(datetime_str) THEN datetime_str.val
                                ELSE StrfDateTime(now),
                   created_at |-> Text_created_at],
                  Text_RecordedExpense \o <<":", " ">> \o amount \o <<",", " ", "c", "a", "t", "e", "g", "o", "r", "y", ":", " ">> \o category
                  \o NoteInfo(note))

\* record_income
record_income(amount, source, note, datetime_str) ==
    InsertFinance(DbCall("record_income",
                         [amount |-> amount, source |-> source, note |-> note,
                          datetime_str |-> datetime_str]),
                  NoColumn("finance", <<<<"t", "y", "p", "e">>, <<"a", "m", "o", "u", "n", "t">>, <<"s", "o", "u", "r", "c", "e">>, <<"n", "o", "t", "e">>,
                                        Text_datetime>>),
                  [id |-> Len(db.finance) + 1, type |-> Text_income, amount |-> amount,
                   category |-> None, source |-> Some(source), note |-> note,
                   datetime |-> IF Truthy(datetime_str) THEN datetime_str.val
                                ELSE StrfDateTime(now),
                   created_at |-> Text_created_at],
                  Text_RecordedIncome \o <<":", " ">> \o amount \o <<",", " ", "s", "o", "u", "r", "c", "e", ":", " ">> \o source
                  \o NoteInfo(note))

\* the answer of the INSERT of add_todo
InsertTodo(call, unknown, row, ret) ==
    IF unknown # <<>>
    THEN /\ last' = [call EXCEPT !.raised = TRUE,
                                 !.error = Text_todo_has_no_column \o unknown]
         /\ UNCHANGED db
    ELSE /\ db' = [db EXCEPT !.todo = Append(db.todo, row)]
         /\ last' = [call EXCEPT !.ret = ret]

\* add_todo; status is left to the DEFAULT 'pending' of the table
add_todo(content, topic, due_datetime) ==
    InsertTodo(DbCall("add_todo",
                      [content |-> content, topic |-> topic, due_datetime |-> due_datetime]),
               NoColumn("todo", <<<<"c", "o", "n", "t", "e", "n", "t">>, <<"t", "o", "p", "i", "c">>, Text_due_datetime>>),
               [id |-> Len(db.todo) + 1, content |-> content, topic |-> topic,
                status |-> Text_pending, due_datetime |-> due_datetime,
                completed_at |-> None, created_at |-> Text_created_at],
               Text_AddedTodo \o content
               \o (IF Truthy(topic) THEN <<",", " ", "t", "o", "p", "i", "c", ":", " ">> \o topic.val ELSE <<>>)
               \o (IF Truthy(due_datetime) THEN <<",", " ", "d", "u", "e", ":", " ">> \o due_datetime.val ELSE <<>>))

\* whether todo row a comes before row b in ORDER BY CASE WHEN due_datetime IS NOT
\* NULL THEN 0 ELSE 1 END, due_datetime ASC, created_at DESC
TodoBefore(a, b) ==
    \/ a.due_datetime.some /\ ~b.due_datetime.some
    \/ a.due_datetime.some /\ b.due_datetime.some
          /\ StrLess(a.due_datetime.val, b.due_datetime.val)
    \/ a.due_datetime = b.due_datetime /\ StrLess(b.created_at, a.created_at)

RECURSIVE InsertTodoRow(_, _)
InsertTodoRow(rows, row) ==
    IF rows = <<>> THEN <<row>>
    ELSE IF TodoBefore(row, Head(rows)) THEN <<row>> \o rows
    ELSE <<Head(rows)>> \o InsertTodoRow(Tail(rows), row)

RECURSIVE OrderTodos(_)
OrderTodos(rows) ==
    IF rows = <<>> THEN <<>>
    ELSE InsertTodoRow(OrderTodos(SubSeq(rows, 1, Len(rows) - 1)), rows[Len(rows)])

\* the rows WHERE [status = ?] [AND topic = ?]
RECURSIVE TodosWhere(_, _, _)
TodosWhere(rows, topic, status) ==
    IF rows = <<>> THEN <<>>
    ELSE (IF /\ status # <<"a", "l", "l">> => Head(rows).status = status
             /\ Truthy(topic) => Head(rows).topic = topic
          THEN <<Head(rows)>> ELSE <<>>)
         \o TodosWhere(Tail(rows), topic, status)

\* whether the row is pending and due before the clock
Overdue(row, clock) ==
    /\ row.status # Text_completed
    /\ Truthy(row.due_datetime)
    /\ StrLess(row.due_datetime.val, StrfDateTime(clock))

\* the line of a row as it is before its mark is put in front
TodoText(row, clock) ==
    <<" ", " ", "[">> \o Str(row.id) \o <<"]", " ">> \o row.content
    \o (IF Truthy(row.topic) THEN <<" ", "[">> \o row.topic.val \o <<"]">> ELSE <<>>)
    \o (IF row.status = Text_completed \/ ~Truthy(row.due_datetime) THEN <<>>
        ELSE IF Overdue(row, clock) THEN <<" ", "O", "V", "E", "R", "D", "U", "E", "(">> \o row.due_datetime.val \o <<")">>
        ELSE <<" ", "(", "d", "u", "e", ":", " ">> \o row.due_datetime.val \o <<")">>)

\* the line of a row in the list: the mark and line[4:]
TodoLine(row, clock) ==
    (IF row.status = Text_completed THEN <<" ", " ", "[", "x", "]", " ">> ELSE <<" ", " ", "[", " ", "]", " ">>)
    \o DropFirst(TodoText(row, clock), 4)

\* the number of rows that are overdue
RECURSIVE OverdueCount(_, _)
OverdueCount(rows, clock) ==
    IF rows = <<>> THEN 0
    ELSE (IF Overdue(Head(rows), clock) THEN 1 ELSE 0) + OverdueCount(Tail(rows), clock)

\* the text of the list of the rows
FormatTodos(rows, overdue_count, include_overdue_reminder, clock) ==
    IF rows = <<>> THEN <<"N", "o", " ", "t", "o", "d", "o", "s", " ", "f", "o", "u", "n", "d">>
    ELSE Join(<<<<"T", "o", "d", "o", " ", "L", "i", "s", "t", ":">>>>
              \o (IF include_overdue_reminder /\ overdue_count > 0
                  THEN <<<<"W", "a", "r", "n", "i", "n", "g", ":", " ", "Y", "o", "u", " ", "h", "a", "v", "e", " ">> \o Str(overdue_count)
                         \o <<" ", "o", "v", "e", "r", "d", "u", "e", " ", "t", "a", "s", "k", "(", "s", ")", "!">>, <<>>>>
                  ELSE <<>>)
              \o <<<<>>>>
              \o [i \in DOMAIN rows |-> TodoLine(rows[i], clock)], <<"\n">>)

\* the rows that list_todos selected, formatted
ListSelected(call, rows, include_overdue_reminder) ==
    last' = [call EXCEPT !.ret = FormatTodos(rows, OverdueCount(rows, now),
                                             include_overdue_reminder, now)]

\* the answer of the SELECT of list_todos: OperationalError for a column the table
\* does not have
SelectTodos(call, unknown, topic, status, include_overdue_reminder) ==
    /\ IF unknown # <<>>
       THEN last' = [call EXCEPT !.raised = TRUE, !.error = Text_no_such_column \o unknown]
       ELSE ListSelected(call, OrderTodos(TodosWhere(db.todo, topic, status)),
                         include_overdue_reminder)
    /\ UNCHANGED db

\* list_todos
list_todos(topic, status, include_overdue_reminder) ==
    SelectTodos(DbCall("list_todos", [topic |-> topic, status |-> status,
                                      include_overdue_reminder |-> include_overdue_reminder]),
                NoColumn("todo", <<<<"i", "d">>, <<"c", "o", "n", "t", "e", "n", "t">>, <<"t", "o", "p", "i", "c">>, <<"s", "t", "a", "t", "u", "s">>,
                                   Text_due_datetime, <<"c", "r", "e", "a", "t", "e", "d", "_", "a", "t">>>>),
                topic, status, include_overdue_reminder)

(***************************************************************************)
(* handlers.call_tool                                                      *)
(***************************************************************************)
Name_record_expense == <<"r", "e", "c", "o", "r", "d", "_", "e", "x", "p", "e", "n", "s", "e">>
Name_record_income == <<"r", "e", "c", "o", "r", "d", "_", "i", "n", "c", "o", "m", "e">>
Name_query_finance == <<"q", "u", "e", "r", "y", "_", "f", "i", "n", "a", "n", "c", "e">>
Name_add_todo == <<"a", "d", "d", "_", "t", "o", "d", "o">>
Name_complete_todo == <<"c", "o", "m", "p", "l", "e", "t", "e", "_", "t", "o", "d", "o">>
Name_list_todos == <<"l", "i", "s", "t", "_", "t", "o", "d", "o", "s">>
Name_record_health == <<"r", "e", "c", "o", "r", "d", "_", "h", "e", "a", "l", "t", "h">>
Name_query_health == <<"q", "u", "e", "r", "y", "_", "h", "e", "a", "l", "t", "h">>
Name_add_diary == <<"a", "d", "d", "_", "d", "i", "a", "r", "y">>
Name_search_diary == <<"s", "e", "a", "r", "c", "h", "_", "d", "i", "a", "r", "y">>

\* DailyTools: the names that _dispatch_tool has a handler for
DailyTools ==
    {Name_record_expense, Name_record_income, Name_query_finance, Name_add_todo,
     Name_complete_todo, Name_list_todos, Name_record_health, Name_query_health,
     Name_add_diary, Name_search_diary}

\* the names of the keys of the argument maps, as text
KeyText(key) ==
    CASE key = "amount" -> <<"a", "m", "o", "u", "n", "t">>
      [] key = "category" -> <<"c", "a", "t", "e", "g", "o", "r", "y">>
      [] key = "source" -> <<"s", "o", "u", "r", "c", "e">>
      [] key = "content" -> <<"c", "o", "n", "t", "e", "n", "t">>
      [] key = "metric_type" -> <<"m", "e", "t", "r", "i", "c", "_", "t", "y", "p", "e">>
      [] key = "value" -> <<"v", "a", "l", "u", "e">>
      [] key = "bogus" -> <<"b", "o", "g", "u", "s">>
      [] OTHER -> <<"?">>

\* arguments.get(key)
Get(arguments, key) == IF key \in DOMAIN arguments THEN Some(arguments[key]) ELSE None

\* the first of keys that is not in arguments, <<>> when all are there
RECURSIVE Missing(_, _)
Missing(arguments, keys) ==
    IF keys = <<>> THEN <<>>
    ELSE IF Head(keys) \notin DOMAIN arguments THEN <<Head(keys)>>
    ELSE Missing(arguments, Tail(keys))

\* the call of the tool function of the name raised before its body ran: nothing
\* is written
Raises(name, arguments, error) ==
    /\ last' = [DbCall("_dispatch_tool", [name |-> name, arguments |-> arguments])
                   EXCEPT !.raised = TRUE, !.error = error]
    /\ UNCHANGED <<files, dirs, calls, db>>

\* arguments[key] for a key that is missing: KeyError, whose str is the quoted key
KeyError(name, arguments, key) ==
    Raises(name, arguments, <<"'">> \o KeyText(key) \o <<"'">>)

\* f(**arguments) with a key that f has no parameter for: TypeError
UnexpectedKeyword(name, text, arguments, key) ==
    Raises(name, arguments,
           text \o <<"(", ")", " ", "g", "o", "t", " ", "a", "n", " ", "u", "n", "e", "x", "p", "e", "c", "t", "e", "d", " ", "k", "e", "y", "w", "o", "r", "d", " ", "a", "r", "g", "u", "m", "e", "n", "t", " ", "'">> \o KeyText(key) \o <<"'">>)

Text_UnknownTool == <<"U", "n", "k", "n", "o", "w", "n", " ", "t", "o", "o", "l", ":", " ">>
Text_Error == <<"E", "r", "r", "o", "r", ":", " ">>
Text_time_data == <<"t", "i", "m", "e", " ", "d", "a", "t", "a", " ", "'">>
Text_does_not_match == <<"'", " ", "d", "o", "e", "s", " ", "n", "o", "t", " ", "m", "a", "t", "c", "h", " ", "f", "o", "r", "m", "a", "t", " ", "'", "%", "Y", "-", "%", "m", "-", "%", "d", "'">>

DefaultDays == 30

\* _dispatch_tool: the tool function of the name is called with the arguments
_dispatch_tool(name, arguments) ==
    IF name = Name_record_expense
        THEN IF Missing(arguments, <<"amount", "category">>) # <<>>
             THEN KeyError("record_expense", arguments, Missing(arguments, <<"amount", "category">>)[1])
             ELSE /\ record_expense(arguments.amount, arguments.category,
                                     Get(arguments, "note"), Get(arguments, "datetime"))
                  /\ UNCHANGED <<files, dirs, calls>>
        ELSE IF name = Name_record_income
        THEN IF Missing(arguments, <<"amount", "source">>) # <<>>
             THEN KeyError("record_income", arguments, Missing(arguments, <<"amount", "source">>)[1])
             ELSE /\ record_income(arguments.amount, arguments.source,
                                    Get(arguments, "note"), Get(arguments, "datetime"))
                  /\ UNCHANGED <<files, dirs, calls>>
        ELSE IF name = Name_query_finance
        THEN /\ query_finance(IF "sql" \in DOMAIN arguments THEN arguments.sql ELSE <<>>)
             /\ UNCHANGED <<files, dirs, calls>>
        ELSE IF name = Name_add_todo
        THEN IF Missing(arguments, <<"content">>) # <<>>
             THEN KeyError("add_todo", arguments, "content")
             ELSE /\ add_todo(arguments.content, Get(arguments, "topic"),
                               Get(arguments, "due_datetime"))
                  /\ UNCHANGED <<files, dirs, calls>>
        ELSE IF name = Name_complete_todo
        THEN IF (DOMAIN arguments \ {"todo_id", "content_match"}) # {}
             THEN UnexpectedKeyword("complete_todo", Name_complete_todo, arguments,
                                    CHOOSE k \in (DOMAIN arguments \ {"todo_id", "content_match"}) : TRUE)
             ELSE /\ complete_todo(Get(arguments, "todo_id"), Get(arguments, "content_match"))
                  /\ UNCHANGED <<files, dirs, calls>>
        ELSE IF name = Name_list_todos
        THEN IF (DOMAIN arguments \ {"topic", "status", "include_overdue_reminder"}) # {}
             THEN UnexpectedKeyword("list_todos", Name_list_todos, arguments,
                                    CHOOSE k \in (DOMAIN arguments \ {"topic", "status",
                                                        "include_overdue_reminder"}) : TRUE)
             ELSE /\ list_todos(Get(arguments, "topic"),
                                 IF "status" \in DOMAIN arguments THEN arguments.status
                                 ELSE Text_pending,
                                 IF "include_overdue_reminder" \in DOMAIN arguments
                                 THEN arguments.include_overdue_reminder ELSE TRUE)
                  /\ UNCHANGED <<files, dirs, calls>>
        ELSE IF name = Name_record_health
        THEN IF Missing(arguments, <<"metric_type", "value">>) # <<>>
             THEN KeyError("record_health", arguments, Missing(arguments, <<"metric_type", "value">>)[1])
             \* record_health(..., datetime_str=...): it has no such parameter
             ELSE Raises("record_health", arguments,
                         Name_record_health
                         \o <<"(", ")", " ", "g", "o", "t", " ", "a", "n", " ", "u", "n", "e", "x", "p", "e", "c", "t", "e", "d", " ", "k", "e", "y", "w", "o", "r", "d", " ", "a", "r", "g", "u", "m", "e", "n", "t", " ", "'", "d", "a", "t", "e", "t", "i", "m", "e", "_", "s", "t", "r", "'">>)
        ELSE IF name = Name_query_health
        THEN IF (DOMAIN arguments \ {"metric_type", "days", "sql"}) # {}
             THEN UnexpectedKeyword("query_health", Name_query_health, arguments,
                                    CHOOSE k \in (DOMAIN arguments \ {"metric_type", "days", "sql"}) : TRUE)
             ELSE /\ query_health(Get(arguments, "metric_type"),
                                  IF "days" \in DOMAIN arguments THEN arguments.days
                                  ELSE DefaultDays,
                                  Get(arguments, "sql"))
                  /\ UNCHANGED <<files, dirs, calls>>
        ELSE IF name = Name_add_diary
        THEN IF Missing(arguments, <<"content">>) # <<>>
             THEN KeyError("add_diary", arguments, "content")
             ELSE /\ \E r \in {Request(arguments.content, Get(arguments, "tags"),
                                         Get(arguments, "datetime"))} :
                        add_diary(r.content, r.tags, r.datetime_str)
                  /\ UNCHANGED db
        ELSE IF name = Name_search_diary
        THEN /\ \E q \in {Query(Get(arguments, "keyword"), Get(arguments, "tag"),
                                Get(arguments, "start_datetime"),
                                Get(arguments, "end_datetime"))} :
                   search_diary(q.keyword, q.tag, q.start_datetime, q.end_datetime)
             /\ UNCHANGED db
        ELSE /\ last' = [DbCall("unknown", arguments) EXCEPT !.ret = Text_UnknownTool \o name]
             /\ UNCHANGED <<files, dirs, calls, db>>

\* str(e) of the exception that call raised
ErrorText(call) ==
    IF call.op = "search_diary"
    THEN Text_time_data
         \o (IF BoundBad(call.start_datetime) THEN call.start_datetime.val
             ELSE call.end_datetime.val)
         \o Text_does_not_match
    ELSE call.error

\* call_tool, had it had no except clause
call_tool_bare(name, arguments) ==
    /\ _dispatch_tool(name, arguments)
    /\ reply' = IF last'.raised
                THEN [some |-> TRUE, name |-> name, text |-> <<>>, escaped |-> TRUE]
                ELSE [some |-> TRUE, name |-> name, text |-> last'.ret, escaped |-> FALSE]

\* call_tool
call_tool(name, arguments) ==
    /\ _dispatch_tool(name, arguments)
    /\ reply' = IF last'.raised
                THEN [some |-> TRUE, name |-> name, text |-> Text_Error \o ErrorText(last'),
                      escaped |-> FALSE]
                ELSE [some |-> TRUE, name |-> name, text |-> last'.ret, escaped |-> FALSE]

(***************************************************************************)
(* The tools, called one at a time                                         *)
(***************************************************************************)
Text_BuyMilk == <<"B", "u", "y", " ", "m", "i", "l", "k">>
Text_BuyBread == <<"B", "u", "y", " ", "b", "r", "e", "a", "d">>
Text_milk == <<"m", "i", "l", "k">>
Text_DeleteHealth == <<"D", "E", "L", "E", "T", "E", " ", "F", "R", "O", "M", " ", "h", "e", "a", "l", "t", "h">>
Text_SelectCommented == <<"S", "E", "L", "E", "C", "T", " ", "*", " ", "F", "R", "O", "M", " ", "h", "e", "a", "l", "t", "h", " ", "-", "-", " ", "f", "i", "n", "a", "n", "c", "e">>
Text_BUY == <<"B", "U", "Y">>
Text_weight == <<"w", "e", "i", "g", "h", "t">>
Text_mood == <<"m", "o", "o", "d">>
Text_70 == <<"7", "0">>

\* the rows the todo table holds when the server starts (the database file
\* outlives the process)
TodoTables ==
    {<<>>,
     <<TodoRow(1, Text_BuyMilk, Text_pending, None)>>,
     <<TodoRow(1, Text_BuyMilk, Text_completed, Some(<<"2", "0", "2", "4", "-", "0", "1", "-", "3", "0", "T", "1", "0", ":", "0", "0", ":", "0", "0">>)),
       TodoRow(2, Text_BuyBread, Text_pending, None)>>,
     <<TodoRow(1, Text_BuyMilk, Text_pending, None),
       TodoRow(2, Text_BuyBread, Text_pending, None)>>}

\* the todo_id and content_match of the complete_todo calls
TodoIds == {None, Some(0), Some(1), Some(9)}
ContentMatches == {None, Some(<<>>), Some(Text_BUY), Some(Tag_x)}

\* the SQL texts of the query calls
SqlTexts ==
    {<<"S", "E", "L", "E", "C", "T", " ", "*", " ", "F", "R", "O", "M", " ", "f", "i", "n", "a", "n", "c", "e">>,
     <<" ", " ", "s", "e", "l", "e", "c", "t", " ", "*", " ", "f", "r", "o", "m", " ", "F", "i", "n", "a", "n", "c", "e", "\n">>,
     <<"S", "E", "L", "E", "C", "T", " ", "*", " ", "F", "R", "O", "M", " ", "h", "e", "a", "l", "t", "h">>,
     <<"S", "E", "L", "E", "C", "T", " ", "*", " ", "F", "R", "O", "M", " ", "u", "s", "e", "r", "s">>,
     Text_SelectCommented,
     <<"S", "E", "L", "E", "C", "T", " ", "*", " ", "F", "R", "O", "M", " ", "t", "o", "d", "o", " ", "-", "-", " ", "f", "i", "n", "a", "n", "c", "e">>,
     <<"S", "E", "L", "E", "C", "T", " ", "*", " ", "F", "R", "O", "M", " ", "f", "i", "n", "a", "n", "c", "e", " ", "-", "-", " ", "h", "e", "a", "l", "t", "h">>,
     Text_DeleteHealth,
     <<"d", "e", "l", "e", "t", "e", " ", "f", "r", "o", "m", " ", "t", "o", "d", "o", " ", "-", "-", " ", "f", "i", "n", "a", "n", "c", "e", " ", "h", "e", "a", "l", "t", "h">>,
     <<"S", "E", "L", "E", "C", "T", " ", "*", " ", "F", "R", "O", "M", " ", "h", "e", "a", "l", "t", "h", ";", " ", "D", "E", "L", "E", "T", "E", " ", "F", "R", "O", "M", " ", "h", "e", "a", "l", "t", "h">>,
     <<"s", "e", "l", "e", "c", "t", "x", " ", "f", "i", "n", "a", "n", "c", "e", " ", "h", "e", "a", "l", "t", "h">>,
     <<>>}

\* the arguments of the record_health calls
HealthRequests ==
    {[metric_type |-> Text_weight, value |-> Text_70, unit |-> None, note |-> None,
      date |-> None],
     [metric_type |-> Text_mood, value |-> Content_jog, unit |-> Some(<<>>),
      note |-> Some(Content_Run), date |-> Some(Day_Dec31)]}

\* the arguments of the record_expense calls
ExpenseRequests ==
    {[amount |-> <<"2", "0", "0", ".", "0">>, category |-> <<"s", "h", "o", "p", "p", "i", "n", "g">>, note |-> None,
      datetime_str |-> Some(<<"2", "0", "2", "4", "-", "0", "1", "-", "1", "5", " ", "1", "0", ":", "3", "0", ":", "0", "0">>)],
     [amount |-> Text_70, category |-> Content_jog, note |-> Some(Content_Run),
      datetime_str |-> None]}

NoArguments == [k \in {} |-> <<>>]

ToolCall(name, arguments) == [name |-> name, arguments |-> arguments]

\* the names and argument maps of the call_tool calls
ToolCalls ==
    {ToolCall(Name_add_diary, [content |-> Content_Run, datetime |-> Evening]),
     ToolCall(Name_add_diary, [tags |-> <<Tag_W>>]),
     ToolCall(Name_search_diary, NoArguments),
     ToolCall(Name_search_diary, [start_datetime |-> Day_Dec31, end_datetime |-> NoSuchMonth]),
     ToolCall(Name_search_diary, [start_datetime |-> NoSuchMonth]),
     ToolCall(Name_record_expense, [amount |-> Text_70, category |-> Content_jog]),
     ToolCall(Name_record_expense, [amount |-> Text_70]),
     ToolCall(Name_record_income, [amount |-> Text_70, source |-> Content_jog]),
     ToolCall(Name_record_income, NoArguments),
     ToolCall(Name_add_todo, [content |-> Text_BuyMilk]),
     ToolCall(Name_add_todo, NoArguments),
     ToolCall(Name_complete_todo, [todo_id |-> 1]),
     ToolCall(Name_complete_todo, [todo_id |-> 9, content_match |-> Text_milk]),
     ToolCall(Name_complete_todo, [bogus |-> 1]),
     ToolCall(Name_list_todos, NoArguments),
     ToolCall(Name_list_todos, [bogus |-> 1]),
     ToolCall(Name_record_health, [metric_type |-> Text_weight, value |-> Text_70]),
     ToolCall(Name_record_health, [metric_type |-> Text_weight, value |-> Text_70,
                                   datetime |-> Evening]),
     ToolCall(Name_record_health, [value |-> Text_70]),
     ToolCall(Name_query_health, NoArguments),
     ToolCall(Name_query_health, [bogus |-> 1]),
     ToolCall(<<>>, NoArguments),
     ToolCall(<<"d", "e", "l", "e", "t", "e", "_", "d", "i", "a", "r", "y">>, [content |-> Content_Run])}
    \cup {ToolCall(Name_query_finance, [sql |-> s]) : s \in {Text_DeleteHealth, Text_SelectCommented}}
    \cup {ToolCall(Name_query_finance, NoArguments)}
    \cup {ToolCall(Name_query_health, [sql |-> Text_DeleteHealth])}

InitTools ==
    /\ files = NoFiles
    /\ dirs = {}
    /\ now = Clock[1]
    /\ calls = <<>>
    /\ last = NoCall
    /\ procs = NoProcs
    /\ db \in {[Database_init EXCEPT !.todo = t] : t \in TodoTables}
    /\ reply = NoReply

CompleteTodo ==
    /\ Idle
    /\ \E todo_id \in TodoIds, content_match \in ContentMatches :
          complete_todo(todo_id, content_match)
    /\ UNCHANGED <<files, dirs, now, calls, procs, reply>>

QueryFinance ==
    /\ Idle
    /\ \E sql \in SqlTexts : query_finance(sql)
    /\ UNCHANGED <<files, dirs, now, calls, procs, reply>>

QueryHealth ==
    /\ Idle
    /\ \E sql \in {None} \cup {Some(s) : s \in SqlTexts} : query_health(None, DefaultDays, sql)
    /\ UNCHANGED <<files, dirs, now, calls, procs, reply>>

RecordHealth ==
    /\ Idle
    /\ \E r \in HealthRequests : record_health(r.metric_type, r.value, r.unit, r.note, r.date)
    /\ UNCHANGED <<files, dirs, now, calls, procs, reply>>

RecordExpense ==
    /\ Idle
    /\ \E r \in ExpenseRequests : record_expense(r.amount, r.category, r.note, r.datetime_str)
    /\ UNCHANGED <<files, dirs, now, calls, procs, reply>>

CallTool ==
    /\ Idle
    /\ \E c \in ToolCalls : call_tool(c.name, c.arguments)
    /\ UNCHANGED <<now, procs>>

NextTools ==
    CompleteTodo \/ QueryFinance \/ QueryHealth \/ RecordHealth \/ RecordExpense
    \/ CallTool \/ Return

SpecTools == InitTools /\ [][NextTools]_vars

(***************************************************************************)
(* C17  call_tool always answers with a text                               *)
(***************************************************************************)
\* a step in which call_tool answers
Answers == ~reply.some /\ reply'.some

\* C17: call_tool answers every name and argument map with a text and lets no
\* exception escape: an unknown name is answered 'Unknown tool: <name>' with the
\* database and the diary store unchanged, an exception raised in a tool function
\* is answered 'Error: ' and the text of the exception, and every other call with
\* the text the tool function returned.
C17_CallToolAnswersWithText ==
    [][Answers =>
          /\ ~reply'.escaped
          /\ reply'.name \notin DailyTools =>
                /\ reply'.text = Text_UnknownTool \o reply'.name
                /\ db' = db /\ files' = files /\ dirs' = dirs
          /\ last'.raised => StartsWith(reply'.text, Text_Error)
          /\ ~last'.raised => reply'.text = last'.ret]_vars

\* a tool function raised after the database was written and the answer is a text
C17_Witness ==
    /\ reply.some /\ last.raised /\ ~reply.escaped
    /\ StartsWith(reply.text, Text_Error)
    /\ db.health # <<>>

(***************************************************************************)
(* C18  complete_todo changes a row only when it finds a pending todo      *)
(***************************************************************************)
\* whether the todo that the arguments name is pending in rows: the id when one
\* is given, and the content_match when no id is given
FindsPending(rows, todo_id, content_match) ==
    IF todo_id.some THEN PendingWithId(rows, todo_id.val) # 0
    ELSE IF content_match.some THEN PendingLike(rows, content_match.val) # 0
    ELSE FALSE

\* a step in which complete_todo returns
CompletesTodo == last.op = "none" /\ last'.op = "complete_todo" /\ ~last'.raised

C18_OnlyOnPendingUnlessIdZero ==
    [][(/\ CompletesTodo
        /\ last'.args.todo_id # Some(0)
        /\ ~FindsPending(db.todo, last'.args.todo_id, last'.args.content_match))
          => StartsWith(last'.ret, <<"E", "r", "r", "o", "r">>) /\ db'.todo = db.todo]_vars

(***************************************************************************)
(* C19  Only SELECT is allowed                                             *)
(***************************************************************************)
\* a step in which query_finance or _query_health_sql returns
RunsSql == last.op = "none" /\ last'.op \in {"query_finance", "_query_health_sql"}

C20_WrongTableRejected ==
    (/\ last.op = "query_finance"
     /\ Statement(last.args.sql).kind = "select"
     /\ Statement(last.args.sql).table # "finance")
    => last.ret = Text_PleaseFinance /\ last.rows = <<>>

(***************************************************************************)
(* C21  record_expense adds the expense row                                *)
(***************************************************************************)
\* a step in which record_expense returns or raises
RecordsExpense == last.op = "none" /\ last'.op = "record_expense"

\* C21 as claimed: on the tables that Database.init creates, record_expense with
\* datetime_str D answers 'Recorded expense' and adds one row to finance, of type
\* 'expense' and with D in its datetime column.
C21_RecordExpenseAddsRow ==
    [][(RecordsExpense /\ Truthy(last'.args.datetime_str)) =>
          /\ ~last'.raised
          /\ StartsWith(last'.ret, Text_RecordedExpense)
          /\ Len(db'.finance) = Len(db.finance) + 1
          /\ SubSeq(db'.finance, 1, Len(db.finance)) = db.finance
          /\ db'.finance[Len(db'.finance)].type = Text_expense
          /\ db'.finance[Len(db'.finance)].datetime = last'.args.datetime_str.val]_vars

(***************************************************************************)
(* C22  An entry without content is never surfaced                         *)
(***************************************************************************)
\* C22 as claimed: no entry that a day file loads as, and no entry that
\* search_diary or _load_diary returned, has an empty content.
C22_NoEntryWithoutContent ==
    /\ \A d \in FileDates :
          \A i \in DOMAIN _load_diary(files, d) : _load_diary(files, d)[i].content # <<>>
    /\ last.op \in {"search_diary", "_load_diary"} =>
          \A i \in DOMAIN last.results : last.results[i].entry.content # <<>>

(***************************************************************************)
(* C23  The tags of a returned entry                                       *)
(***************************************************************************)
\* the tags line of the frontmatter of the day file of date d
FileTags(d) == Range(FrontmatterTags(files[_get_diary_file(d)]))

\* the '#tag' markers of the stored sections of day d that load as this entry
OwnMarkers(d, entry) ==
    LET sections == Sections(Body(files[_get_diary_file(d)]))
    IN  {InlineTags(Strip(sections[k].content_block), 1) :
            k \in {j \in DOMAIN sections : /\ Strip(sections[j].content_block) # <<>>
                                           /\ Entry(sections[j], d) = entry}}

Queried == last.op \in {"search_diary", "_load_diary"} /\ ~last.raised

\* C23 as claimed: the tags of an entry that load or search returned are its own
\* '#tag' markers together with the tags of the frontmatter of its day file.
C23_TagsMergeFrontmatter ==
    Queried =>
        \A i \in DOMAIN last.results :
            LET r == last.results[i]
            IN  \E own \in OwnMarkers(r.file_date, r.entry) :
                    Range(r.entry.tags) = Range(own) \cup FileTags(r.file_date)

\* C23 as the code has it: the tags of an entry that load or search returned are the
\* '#tag' markers of its own section, in their order; the frontmatter adds none.
C23_TagsAreOwnMarkers ==
    Queried =>
        \A i \in DOMAIN last.results :
            last.results[i].entry.tags \in OwnMarkers(last.results[i].file_date,
                                                      last.results[i].entry)

\* a returned entry whose day file records a tag in its frontmatter that the entry
\* does not carry
C23_Witness ==
    /\ Queried
    /\ \E i \in DOMAIN last.results :
          FileTags(last.results[i].file_date) \ Range(last.results[i].entry.tags) # {}

(***************************************************************************)
(* C24  The timestamp of a stored entry                                    *)
(***************************************************************************)
\* p occurs somewhere in s
Occurs(s, p) == \E i \in 1..Len(s) : OccursAt(s, p, i)

\* the datetime D of an append: the one given, or the clock's
AppendedAt(call) ==
    IF Truthy(call.datetime_str) THEN StrptimeDateTime(call.datetime_str.val) ELSE call.at

TruncateToMinute(dt) == [dt EXCEPT !.second = 0]

\* the text of the timestamp an append is loaded with
TruncatedStamp(call) == StrfDateTime(TruncateToMinute(AppendedAt(call)))

\* the 'HH:MM' of D, cut out of its full text 'YYYY-MM-DD HH:MM:SS'
HourMinuteOf(call) == Slice(StrfDateTime(AppendedAt(call)), 12, 16)

\* day `date` of store fs loads an entry with this timestamp
LoadsAt(fs, date, stamp) ==
    \E i \in DOMAIN _load_diary(fs, date) : _load_diary(fs, date)[i].datetime = stamp

\* the results hold an entry of day `date` with this timestamp
ReturnsAt(results, date, stamp) ==
    \E i \in DOMAIN results : results[i].file_date = date /\ results[i].entry.datetime = stamp

\* a step in which add_diary writes, and one in which an unfiltered search returns
AddWrites == last.op = "none" /\ last'.op = "add_diary" /\ last'.date # <<>>
SearchReturns ==
    /\ last.op = "none" /\ last'.op = "search_diary" /\ ~last'.raised
    /\ IsAbsent(last'.keyword) /\ IsAbsent(last'.tag)

\* the section of an append is under the header '## HH:MM' of D, and the entry that
\* the section starts is loaded with D cut to the minute
StoredToTheMinute(call) ==
    LET before == _load_diary(files, call.date)
        after == _load_diary(files', call.date)
    IN  /\ call.date = StrfDate(AppendedAt(call))
        /\ Occurs(files'[_get_diary_file(call.date)],
                  <<"\n", "#", "#", " ">> \o HourMinuteOf(call) \o <<"\n">>)
        /\ Len(after) > Len(before) =>
              after[Len(before) + 1].datetime = TruncatedStamp(call)

\* an entry loaded with D cut to the minute is returned exactly when that timestamp
\* lies within the bounds of the search
FilteredToTheMinute(call, range) ==
    LoadsAt(files, call.date, TruncatedStamp(call)) =>
        (ReturnsAt(last'.results, call.date, TruncatedStamp(call))
            <=> /\ DtLeq(range.start_dt, TruncateToMinute(AppendedAt(call)))
                /\ DtLeq(TruncateToMinute(AppendedAt(call)), range.end_dt))

\* C24: an append with datetime D is stored under the header HH:MM of D and loaded
\* with the timestamp D cut to the minute (seconds 00), and a search without keyword
\* and tag returns it exactly when start <= D cut to the minute <= end.
C24_StoredAndFilteredToTheMinute ==
    [][/\ AddWrites => StoredToTheMinute(calls'[Len(calls')])
       /\ SearchReturns =>
             \A i \in DOMAIN calls :
                FilteredToTheMinute(calls[i],
                    _parse_datetime_range(last'.start_datetime, last'.end_datetime, now))]_vars

\* a search has left out an entry whose D lies within the bounds, because D cut to
\* the minute lies before the start
C24_Witness ==
    /\ Searched /\ ~last.raised /\ Unfiltered
    /\ \E i \in DOMAIN calls :
          LET range == _parse_datetime_range(last.start_datetime, last.end_datetime, now)
          IN  /\ AppendedAt(calls[i]).second # 0
              /\ LoadsAt(files, calls[i].date, TruncatedStamp(calls[i]))
              /\ DtLeq(range.start_dt, AppendedAt(calls[i]))
              /\ DtLeq(AppendedAt(calls[i]), range.end_dt)
              /\ ~DtLeq(range.start_dt, TruncateToMinute(AppendedAt(calls[i])))
              /\ ~ReturnsAt(last.results, calls[i].date, TruncatedStamp(calls[i]))

(***************************************************************************)
(* C25  One append, one entry                                              *)
(***************************************************************************)
\* the add_diary calls that wrote to day d
CallsOn(d) == {i \in DOMAIN calls : calls[i].date = d}

\* C25 as claimed: the entries loaded for a day are as many as the add_diary calls
\* that were made for that day.
C25_OneAppendOneEntry ==
    \A d \in FileDates \cup {calls[i].date : i \in DOMAIN calls} :
        Len(_load_diary(files, d)) = Cardinality(CallsOn(d))

(***************************************************************************)
(* C26  An append touches the file of its day only                         *)
(***************************************************************************)
\* C26: a writing add_diary for day D leaves the text of the file of every other day
\* as it was (frontmatter and body), makes no file but that of D, and leaves the
\* entries loaded for every other day the same.
C26_OtherDaysUntouched ==
    [][AddWrites =>
          /\ last'.date = StrfDate(AppendedAt(calls'[Len(calls')]))
          /\ DOMAIN files' = DOMAIN files \cup {_get_diary_file(last'.date)}
          /\ \A p \in DOMAIN files :
                p # _get_diary_file(last'.date) =>
                    /\ files'[p] = files[p]
                    /\ Frontmatter(files'[p]) = Frontmatter(files[p])
                    /\ _load_diary(files', Stem(p)) = _load_diary(files, Stem(p))]_vars

\* an append has written to one day while the file of another day is there
C26_Witness ==
    /\ Wrote
    /\ \E p \in DOMAIN files :
          /\ p # _get_diary_file(last.date)
          /\ _load_diary(files, Stem(p)) # <<>>

(***************************************************************************)
(* C27  The status of a todo only moves from pending to completed          *)
(***************************************************************************)
\* the rows of todo that a step completes
Completed(before, after) ==
    {i \in DOMAIN before : /\ before[i].status = Text_pending
                           /\ after[i].status = Text_completed}

\* a step in which complete_todo answers 'Completed todo: ...'
CompleteSucceeds == CompletesTodo /\ StartsWith(last'.ret, Text_CompletedTodo)

Suffix_json == <<".", "j", "s", "o", "n">>
WeekDays == 7

\* the pictographs that start the section lines, each one character of the text
Pictograph_chart == "U+1F4CA"
Pictograph_money == "U+1F4B0"
Pictograph_check == "U+2705"
Pictograph_memo == "U+1F4DD"

\* diary_path.glob("*.json"): the files right under diary_path whose name ends so
Glob_json(fs) ==
    {p \in DOMAIN fs :
        /\ Len(p) = 1
        /\ Slice(p[1], Len(p[1]) - Len(Suffix_json) + 1, Len(p[1])) = Suffix_json}

\* the loop of _build_weekly_diary over the files of the glob
RECURSIVE EntryCount(_, _, _, _)
EntryCount(fs, paths, start_str, end_str) ==
    IF paths = {} THEN 0
    ELSE LET p == CHOOSE q \in paths : TRUE
             file_date == Slice(p[1], 1, Len(p[1]) - Len(Suffix_json))
         IN  (IF StrLeq(start_str, file_date) /\ StrLeq(file_date, end_str)
              THEN Len(_load_diary(fs, file_date)) ELSE 0)
             + EntryCount(fs, paths \ {p}, start_str, end_str)

\* the line of the diary section for a count
DiaryLine(entry_count) ==
    <<Pictograph_memo>> \o <<" ", "D", "i", "a", "r", "y", ":", " ">> \o Str(entry_count) \o <<" ", "e", "n", "t", "r", "i", "e", "s", " ", "t", "h", "i", "s", " ", "w", "e", "e", "k">>

\* _build_weekly_diary
_build_weekly_diary(fs, start_str, end_str) ==
    <<DiaryLine(EntryCount(fs, Glob_json(fs), start_str, end_str))>>

\* _build_weekly_finance, for a finance table without rows
_build_weekly_finance == <<<<Pictograph_money>> \o <<" ", "F", "i", "n", "a", "n", "c", "e", " ", "O", "v", "e", "r", "v", "i", "e", "w", ":">>, <<>>>>

\* _build_weekly_todos
_build_weekly_todos(rows, start_str, end_str) ==
    LET completed == {i \in DOMAIN rows :
                         /\ rows[i].status = Text_completed
                         /\ rows[i].completed_at.some
                         /\ StrLeq(start_str, Slice(rows[i].completed_at.val, 1, 10))
                         /\ StrLeq(Slice(rows[i].completed_at.val, 1, 10), end_str)}
        pending == {i \in DOMAIN rows : rows[i].status = Text_pending}
    IN  <<<<Pictograph_check>> \o <<" ", "T", "o", "d", "o", "s", ":">>,
          <<" ", " ", "C", "o", "m", "p", "l", "e", "t", "e", "d", " ", "t", "h", "i", "s", " ", "w", "e", "e", "k", ":", " ">> \o Str(Cardinality(completed)),
          <<" ", " ", "C", "u", "r", "r", "e", "n", "t", "l", "y", " ", "p", "e", "n", "d", "i", "n", "g", ":", " ">> \o Str(Cardinality(pending)),
          <<>>>>

\* the lines of the summary when every query of it runs, for a health table
\* without rows
WeeklyLines(start_str, end_str) ==
    <<<<Pictograph_chart>> \o <<" ", "W", "e", "e", "k", "l", "y", " ", "S", "u", "m", "m", "a", "r", "y", " ", "(">> \o start_str \o <<" ", "t", "o", " ">> \o end_str \o <<")">>,
      [i \in 1..50 |-> "="], <<>>>>
    \o _build_weekly_finance
    \o _build_weekly_todos(db.todo, start_str, end_str)
    \o _build_weekly_diary(files, start_str, end_str)

\* get_weekly_summary: the queries of the finance and the health section name the
\* column 'datetime'
get_weekly_summary ==
    LET start_str == StrfDate(MinusDays(now, WeekDays))
        end_str == StrfDate(now)
        call == DbCall("get_weekly_summary", [start_str |-> start_str, end_str |-> end_str])
        unknown == NoColumn("finance", <<<<"t", "y", "p", "e">>, <<"a", "m", "o", "u", "n", "t">>, Text_datetime>>)
                   \o NoColumn("health", <<<<"m", "e", "t", "r", "i", "c", "_", "t", "y", "p", "e">>, <<"v", "a", "l", "u", "e">>, Text_datetime>>)
    IN  /\ last' = IF unknown # <<>>
                   THEN [call EXCEPT !.raised = TRUE,
                            !.error = Text_no_such_column
                                      \o (IF HasColumn("finance", Text_datetime)
                                          THEN NoColumn("health", <<Text_datetime>>)
                                          ELSE NoColumn("finance", <<Text_datetime>>))]
                   ELSE [call EXCEPT !.ret = Join(WeeklyLines(start_str, end_str), <<"\n">>)]
        /\ UNCHANGED <<files, dirs, now, calls, db>>

GetWeeklySummary ==
    /\ Idle
    /\ get_weekly_summary
    /\ UNCHANGED <<procs, reply>>

NextSummary == AddDiary \/ GetWeeklySummary \/ Return \/ Tick

SpecSummary == Init /\ [][NextSummary]_vars

(***************************************************************************)
(* C28  The diary line of the weekly summary                               *)
(***************************************************************************)
\* the add_diary calls that wrote to a day from today - 7 days to today
CallsThisWeek ==
    {i \in DOMAIN calls : /\ StrLeq(StrfDate(MinusDays(now, WeekDays)), calls[i].date)
                          /\ StrLeq(calls[i].date, StrfDate(now))}

\* C28 as claimed: get_weekly_summary returns a text whose diary line reports as many
\* entries this week as add_diary calls have written to the days from today - 7 days
\* to today.
C28_WeeklySummaryCountsEntries ==
    last.op = "get_weekly_summary" =>
        /\ ~last.raised
        /\ Occurs(last.ret, DiaryLine(Cardinality(CallsThisWeek)))

\* the diary section by itself: _build_weekly_diary finds no day file, whatever
\* add_diary has written
WeeklyDiaryFindsNoFile ==
    _build_weekly_diary(files, StrfDate(MinusDays(now, WeekDays)), StrfDate(now))
        = <<DiaryLine(0)>>

(***************************************************************************)
(* The current time (tools/time_utils.py)                                  *)
(***************************************************************************)
\* strftime("%A"): 2000-01-01, the day SecondsOf counts from, was a Saturday
WeekdayNames ==
    <<<<"S", "a", "t", "u", "r", "d", "a", "y">>, <<"S", "u", "n", "d", "a", "y">>, <<"M", "o", "n", "d", "a", "y">>, <<"T", "u", "e", "s", "d", "a", "y">>, <<"W", "e", "d", "n", "e", "s", "d", "a", "y">>, <<"T", "h", "u", "r", "s", "d", "a", "y">>, <<"F", "r", "i", "d", "a", "y">>>>
StrfWeekday(dt) ==
    WeekdayNames[((SecondsOf([dt EXCEPT !.hour = 0, !.minute = 0, !.second = 0])
                     \div (24 * 60 * 60)) % 7) + 1]

\* strftime("%H:%M:%S")
StrfTime(dt) == StrfHourMinute(dt) \o <<":">> \o Digits(dt.second, 2)

\* now.replace(day=now.day - 1) if now.day > 1 else now
YesterdayOf(clock) == IF clock.day > 1 THEN [clock EXCEPT !.day = clock.day - 1] ELSE clock

Text_YesterdayLabel == <<"-", " ", "Y", "e", "s", "t", "e", "r", "d", "a", "y", ":", " ">>
Text_DateLabel == <<"-", " ", "D", "a", "t", "e", ":", " ">>

\* the characters outside ASCII of the examples, each one character of the text
Arrow == "U+2192"
Text_JustNow == <<"U+521A", "U+521A">>
Text_Yesterday3pm == <<"U+6628", "U+5929", "U+4E0B", "U+5348", "3", "U+70B9">>
Text_ThisMorning9am == <<"U+4ECA", "U+5929", "U+65E9", "U+4E0A", "9", "U+70B9">>

\* the text get_current_time returns for the clock and the 'yesterday' it computed
TimeInformation(clock, yesterday_str) ==
    <<"C", "u", "r", "r", "e", "n", "t", " ", "T", "i", "m", "e", " ", "I", "n", "f", "o", "r", "m", "a", "t", "i", "o", "n", ":", "\n">>
    \o <<"-", " ", "N", "o", "w", ":", " ">> \o StrfDateTime(clock) \o <<"\n">>
    \o Text_DateLabel \o StrfDate(clock) \o <<" ", "(">> \o StrfWeekday(clock) \o <<")", "\n">>
    \o <<"-", " ", "T", "i", "m", "e", ":", " ">> \o StrfTime(clock) \o <<"\n">>
    \o Text_YesterdayLabel \o yesterday_str \o <<"\n">>
    \o <<"\n">>
    \o <<"U", "s", "e", " ", "t", "h", "i", "s", " ", "t", "o", " ", "c", "o", "n", "v", "e", "r", "t", " ", "r", "e", "l", "a", "t", "i", "v", "e", " ", "t", "i", "m", "e", " ", "e", "x", "p", "r", "e", "s", "s", "i", "o", "n", "s", ":", "\n">>
    \o <<"-", " ", "'", "j", "u", "s", "t", " ", "n", "o", "w", "'", " ", "/", " ", "'">> \o Text_JustNow \o <<"'", " ">> \o <<Arrow>> \o <<" ">>
       \o StrfDateTime(clock) \o <<"\n">>
    \o <<"-", " ", "'", "y", "e", "s", "t", "e", "r", "d", "a", "y", " ", "3", "p", "m", "'", " ", "/", " ", "'">> \o Text_Yesterday3pm \o <<"'", " ">> \o <<Arrow>> \o <<" ">>
       \o yesterday_str \o <<" ", "1", "5", ":", "0", "0", ":", "0", "0", "\n">>
    \o <<"-", " ", "'", "t", "h", "i", "s", " ", "m", "o", "r", "n", "i", "n", "g", " ", "9", "a", "m", "'", " ", "/", " ", "'">> \o Text_ThisMorning9am \o <<"'", " ">> \o <<Arrow>> \o <<" ">>
       \o StrfDate(clock) \o <<" ", "0", "9", ":", "0", "0", ":", "0", "0">>

\* get_current_time
get_current_time ==
    /\ last' = [DbCall("get_current_time", [now |-> now])
                   EXCEPT !.ret = TimeInformation(now, StrfDate(YesterdayOf(now)))]
    /\ UNCHANGED <<files, dirs, now, calls, db>>

\* the dates the clock may show: the first, second, fifteenth and last days of the
\* months of a leap year and of the years around it
ClockYears == {2023, 2024, 2025}
ClockDates ==
    {DateTime(y, m, d, 9, 0, 30) :
        y \in ClockYears, m \in 1..12, d \in {1, 2, 15, 28, 29, 30, 31}}
    \cap {dt \in [year : ClockYears, month : 1..12, day : 1..31, hour : {9}, minute : {0},
                  second : {30}, ok : {TRUE}] : dt.day <= DaysInMonth(dt.year, dt.month)}

InitTime ==
    /\ files = NoFiles
    /\ dirs = {}
    /\ now \in ClockDates
    /\ calls = <<>>
    /\ last = NoCall
    /\ procs = NoProcs
    /\ db = Database_init
    /\ reply = NoReply

GetCurrentTime ==
    /\ Idle
    /\ get_current_time
    /\ UNCHANGED <<procs, reply>>

NextTime == GetCurrentTime \/ Return

SpecTime == InitTime /\ [][NextTime]_vars

(***************************************************************************)
(* C29  The 'Yesterday' of get_current_time                                *)
(***************************************************************************)
\* the date that follows a label in the text
LabelAt(text, label) == CHOOSE i \in 1..Len(text) : OccursAt(text, label, i)
DateAfter(text, label) ==
    StrptimeDate(Slice(text, LabelAt(text, label) + Len(label),
                       LabelAt(text, label) + Len(label) + 9))

\* C29 as claimed: get_current_time does not raise, and the 'Yesterday' date of its
\* text is the calendar day before the 'Date' of its text, on the first day of a
\* month and of a year too.
C29_YesterdayIsTheDayBefore ==
    last.op = "get_current_time" =>
        /\ ~last.raised
        /\ DateAfter(last.ret, Text_DateLabel).ok
        /\ StrfDate(DateAfter(last.ret, Text_YesterdayLabel))
              = StrfDate(PrevDay(DateAfter(last.ret, Text_DateLabel)))

\* what holds instead on a day that is not the first of its month
YesterdayUnlessFirstOfMonth ==
    (last.op = "get_current_time" /\ now.day > 1) =>
        StrfDate(DateAfter(last.ret, Text_YesterdayLabel))
            = StrfDate(PrevDay(DateAfter(last.ret, Text_DateLabel)))

(***************************************************************************)
(* C30  The dispatcher passes keywords that the tool function accepts      *)
(***************************************************************************)
\* the properties of the input schema of a tool, and the required ones (schemas.py)
SchemaProperties(name) ==
    CASE name = Name_record_expense -> {"amount", "category", "note", "datetime"}
      [] name = Name_record_income -> {"amount", "source", "note", "datetime"}
      [] name = Name_query_finance -> {"sql"}
      [] name = Name_add_todo -> {"content", "topic", "due_datetime"}
      [] name = Name_complete_todo -> {"todo_id", "content_match"}
      [] name = Name_list_todos -> {"topic", "status", "include_overdue_reminder"}
      [] name = Name_record_health -> {"metric_type", "value", "unit", "note", "datetime"}
      [] name = Name_query_health -> {"metric_type", "days", "sql"}
      [] name = Name_add_diary -> {"content", "tags", "datetime"}
      [] name = Name_search_diary -> {"keyword", "tag", "start_datetime", "end_datetime"}
      [] OTHER -> {}
SchemaRequired(name) ==
    CASE name = Name_record_expense -> {"amount", "category"}
      [] name = Name_record_income -> {"amount", "source"}
      [] name = Name_query_finance -> {"sql"}
      [] name = Name_add_todo -> {"content"}
      [] name = Name_record_health -> {"metric_type", "value"}
      [] name = Name_add_diary -> {"content"}
      [] OTHER -> {}

\* the argument map has the required properties of the tool's schema and no other
\* than its properties
SchemaValid(name, arguments) ==
    /\ name \in DailyTools
    /\ SchemaRequired(name) \subseteq DOMAIN arguments
    /\ DOMAIN arguments \subseteq SchemaProperties(name)

\* C30 as claimed: no call of a listed tool with schema-valid arguments is answered
\* 'Error: ...' for an exception of the call of the tool function itself, raised
\* before the body of the tool ran.
C30_SchemaValidCallReachesTool ==
    (reply.some /\ last.op = "_dispatch_tool" /\ SchemaValid(reply.name, last.args.arguments))
        => ~StartsWith(reply.text, Text_Error)

\* what holds with record_health set aside
SchemaValidCallReachesOtherTools ==
    (/\ reply.some /\ last.op = "_dispatch_tool" /\ reply.name # Name_record_health
     /\ SchemaValid(reply.name, last.args.arguments))
        => ~StartsWith(reply.text, Text_Error)

=============================================================================
